---- MODULE Spec2Model ----
(***************************************************************************)
(* LucianPets cognition core: the memory store (MPUComponent), the pattern *)
(* engine (HASRComponent), the behaviour crystallizer (GhostLoops), the    *)
(* curiosity scheduler (WonderEngine) and the identity aggregator          *)
(* (AetheronIdentity).                                                     *)
(*                                                                         *)
(* Numbers.  The source computes with IEEE doubles.  Every probability-    *)
(* like quantity is kept here in thousandths (1000 stands for 1.0) and a   *)
(* product x * f is (x * f) \div 1000, rounded toward minus infinity.      *)
(* Times are milliseconds as returned by Date.now().                       *)
(*                                                                         *)
(* Objects.  A JavaScript object is a TLA+ record whose DOMAIN is the set  *)
(* of properties it has; a missing property is a missing field.  A Map or  *)
(* an array is a sequence in insertion order.                              *)
(***************************************************************************)
EXTENDS Integers, Sequences, FiniteSets, TLC

VARIABLES
  now,              \* Date.now()
  \* ---- MPUComponent
  episodicMemory,   \* this.episodicMemory : array of records
  semanticMemory,   \* this.semanticMemory : Map key -> record, as <<[key, value]>>
  proceduralMemory, \* this.proceduralMemory : Map procedure -> array
  memoryStore,      \* this.memoryStore : Map id -> record
  mpuStats,         \* this.stats
  nextMemId,        \* source of generateMemoryId()
  mpuLast,          \* what the last MPU operation was and what it returned
  \* ---- HASRComponent
  patterns,         \* this.patterns : Map name -> pattern, as a sequence
  resonanceNetwork, \* this.resonanceNetwork : Map name -> connections
  hierarchies,      \* this.hierarchies : per level, the patterns and connections
  hasrStats,        \* this.stats
  nextPatternId,    \* source of the unique part of a learned pattern's name
  hasrLog,          \* the processPattern calls since the last decay sweep
  \* ---- GhostLoops
  crystallizedPatterns, \* this.crystallizedPatterns : Map id -> loop, as a sequence
  activeLoops,      \* this.activeLoops : Set of ids, in insertion order
  loopHistory,      \* this.loopHistory
  loopStats,        \* this.stats
  loopSuccesses,    \* per loop id, the successCount it was first crystallized
                    \* with plus its successful reinforcements since
  loopLast,         \* the input and the result of a checkResonance call that
                    \* was the last GhostLoops operation
  \* ---- WonderEngine
  wonder,           \* the fields of the WonderEngine object and its pending timers
  wonderLast,       \* the last explore() call: its time and what it returned
  \* ---- AetheronIdentity
  identity,         \* identityCore and stats of the AetheronIdentity object
  identityLast,     \* the last AetheronIdentity operation
  \* ---- LucianCognitiveSystem and its request handlers
  system,           \* the handler calls made and the outcome of the last one
  \* ---- SSPComponent
  ssp,              \* the fields of the SSPComponent object
  \* ---- the data directory and the event loop
  files,            \* the JSON documents of config.persistencePath, by file name
  inflight          \* the async calls that wait at an await, in the order of
                    \* their start

mpuVars == <<episodicMemory, semanticMemory, proceduralMemory, memoryStore,
             mpuStats, nextMemId, mpuLast>>

hasrVars == <<patterns, resonanceNetwork, hierarchies, hasrStats, nextPatternId,
              hasrLog>>

loopVars == <<crystallizedPatterns, activeLoops, loopHistory, loopStats,
              loopSuccesses, loopLast>>

wonderVars == <<wonder, wonderLast>>

identityVars == <<identity, identityLast>>

systemVars == <<system>>

sspVars == <<ssp>>

ioVars == <<files, inflight>>

vars == <<now, mpuVars, hasrVars, loopVars, wonderVars, identityVars, systemVars, sspVars, ioVars>>

\* the state of the components other than the one an operation belongs to
exceptMpu == <<hasrVars, loopVars, wonderVars, identityVars, systemVars, sspVars, ioVars>>
exceptHasr == <<mpuVars, loopVars, wonderVars, identityVars, systemVars, sspVars, ioVars>>
exceptLoops == <<mpuVars, hasrVars, wonderVars, identityVars, systemVars, sspVars, ioVars>>
exceptWonder == <<mpuVars, hasrVars, loopVars, identityVars, systemVars, sspVars, ioVars>>
exceptIdentity == <<mpuVars, hasrVars, loopVars, wonderVars, systemVars, sspVars, ioVars>>
exceptSsp == <<mpuVars, hasrVars, loopVars, wonderVars, identityVars, systemVars, ioVars>>

----------------------------------------------------------------------------
(* Bounds of the model *)

\* this.config.maxEpisodic; 1000 in the source (part_002:22), scaled down so
\* that the eviction branch of storeEpisodicMemory is reached
maxEpisodic == 2
\* this.config.maxSemantic; 500 in the source (part_002:23), scaled down
maxSemantic == 2
\* the records shutdown() writes to episodic.json, slice(-100) in the source
\* (part_002:488), scaled down with maxEpisodic
checkpointLimit == 1
\* the records persistMemory keeps in an owner's document; 100 in the source
\* (part_002:428), scaled down so that the trimming branch is reached
persistLimit == 2
\* number of shutdown() calls of the memory store explored
MaxShutdowns == 1
\* number of storeMemory calls explored
MaxStores == 3
\* number of retrieveMemory calls explored
MaxRetrievals == 1
\* number of runs of the consolidation/forgetting timer explored
MaxMemSweeps == 2
\* the clock stops advancing here
MaxNow == 172900000
\* config.hierarchyDepth (5 in the source)
hierarchyDepth == 3
\* number of processPattern calls explored
MaxPatternCalls == 5
\* array inputs are explored among the first MaxArrayCalls calls
MaxArrayCalls == 2
\* number of runs of the pattern decay timer explored
MaxPatternSweeps == 1
\* config.maxActiveLoops (10 in the source)
maxActiveLoops == 2
\* numbers of crystallizePattern, triggerLoop and reinforceLoop calls and of
\* runs of the loop monitoring timer explored
MaxCrystallize == 2
MaxTriggers == 3
MaxReinforce == 1
MaxMerges == 1
MaxLoopSweeps == 1
\* the clock of the loop runs stops advancing here
MaxLoopNow == 160000
\* config.maxQueueSize (20 in the source)
maxQueueSize == 2
\* numbers of explore() calls and of runs of the curiosity cycle explored
MaxExplores == 3
MaxCuriosityCycles == 1
MaxSpikes == 1
\* the clock of the wonder runs stops advancing here
MaxWonderNow == 106000
\* the clock of the runs that fill the exploration queue stops advancing here
MaxQueueNow == 112000
\* config.narrativeMaxLength (100 in the source)
narrativeMaxLength == 2
\* numbers of integrate(), reflect() and setName() calls explored
MaxIntegrate == 2
MaxReflect == 1
MaxSetName == 1
\* the clock of the identity runs stops advancing here
MaxIdentityNow == 160001

\* LucianCognitiveSystem: POST /process requests, memory queries and
\* consolidation steps of the cognition tick in one run
MaxProcess == 1
\* POST /process requests that wait for their persistence in one run
MaxSubmits == 2
MaxMemoryQueries == 2
MaxConsolidate == 1
MaxSspCalls == 3
MaxSspSweeps == 2

----------------------------------------------------------------------------
(* Program constants *)

StartTime == 100000
importanceDecay == 990
forgetFloor == 100
stalenessWindow == 86400000
consolidationThreshold == 700
consolidationBatch == 50
persistThreshold == 500
\* matches.slice(0, 10) of searchEpisodicMemory, scaled to the episodic
\* partition of maxEpisodic records (10 in the source)
episodicSearchLimit == 1
semanticSearchLimit == 5
resonanceThreshold == 600
patternDecay == 995
noveltyBonus == 300
reinforcementFactor == 1200
connectionFloor == 300
singleShotBar == 800
patternFloor == 10
loopStrength == 1000
decayRate == 999
reinforcementBonus == 100
weakenedFloor == 100
loopResonanceThreshold == 600
triggerWeight == 600
contextWeight == 200
recencyBoost == 1100
recencyWindow == 60000
activeWindow == 30000
loopFloor == 10
loopHistoryLimit == 100
coreStrength == 900
coreSuccessCount == 10
lowConfidenceBar == 500
initialCuriosity == 600
baseCuriosity == 500
curiosityDecay == 990
curiosityBoost == 150
explorationDepth == 3
wonderCooldown == 5000
deeperDelay == 1000
deeperFloor == 300
stagnationBar == 300
spikeBoost == 200
interestGain == 100
\* config.noveltyThreshold
noveltyThreshold == 700
firstFamiliarity == 100
familiarityGain == 100
curiosityHistoryLimit == 100
initialCoherence == 700
initialStability == 500
valueDecay == 995
valueGain == 20
conceptGain == 50
stabilityGain == 1
reflectionStabilityGain == 10
driftWindow == 60000
significanceBar == 500
defaultNarrativeImportance == 500
emotionsLimit == 10

----------------------------------------------------------------------------
(* Generic helpers *)

Min(a, b) == IF a < b THEN a ELSE b
Max(a, b) == IF a > b THEN a ELSE b

\* x * f for a factor f in thousandths
Mul(x, f) == (x * f) \div 1000

Has(obj, field) == field \in DOMAIN obj

\* {...a, ...b}: the properties of both, b's values winning
Spread(a, b) ==
  [f \in DOMAIN a \cup DOMAIN b |-> IF f \in DOMAIN b THEN b[f] ELSE a[f]]

\* the last n elements: Array.prototype.slice(-n)
LastN(s, n) == IF Len(s) <= n THEN s ELSE SubSeq(s, Len(s) - n + 1, Len(s))

\* the first n elements: Array.prototype.slice(0, n)
FirstN(s, n) == IF Len(s) <= n THEN s ELSE SubSeq(s, 1, n)

Reverse(s) == [i \in 1..Len(s) |-> s[Len(s) + 1 - i]]

\* s.filter(Keep), order kept
FilterSeq(s, Keep(_)) ==
  LET F[n \in 0..Len(s)] ==
        IF n = 0 THEN <<>>
        ELSE IF Keep(s[n]) THEN Append(F[n - 1], s[n]) ELSE F[n - 1]
  IN F[Len(s)]

\* x placed after every element whose key is >= its own
InsertDesc(x, s, Key(_)) ==
  LET idx == CHOOSE i \in 1..(Len(s) + 1) :
               /\ \A j \in 1..(i - 1) : Key(s[j]) >= Key(x)
               /\ \A j \in i..Len(s) : Key(s[j]) < Key(x)
  IN SubSeq(s, 1, idx - 1) \o <<x>> \o SubSeq(s, idx, Len(s))

\* s.sort((a, b) => Key(b) - Key(a)): non-increasing keys, stable
SortDesc(s, Key(_)) ==
  LET F[n \in 0..Len(s)] ==
        IF n = 0 THEN <<>> ELSE InsertDesc(s[n], F[n - 1], Key)
  IN F[Len(s)]

ImportanceOf(m) == m.importance
TimestampOf(m) == m.timestamp

----------------------------------------------------------------------------
(* MPUComponent (src/unnamed/part_002) *)

\* Strings that the source builds by concatenation are tuples of their parts:
\* the concept 'ball' is <<"ball">>, the pattern key `concept_${c}` is
\* <<"concept_">> \o c, and `semantic_${Date.now()}` is <<"semantic_", "t", now>>.
Ball == <<"ball">>

\* The memories handed to storeMemory in the runs explored.  `content`, which
\* only feeds JSON string matching, is left out.
MemoryInputs ==
  { [type |-> "episodic", concept |-> Ball, emotion |-> "happy",
       context |-> {"owner"}, novelty |-> 800],
    [type |-> "episodic", concept |-> Ball, importance |-> 100],
    [type |-> "episodic", importance |-> 1500],
    [type |-> "episodic", concept |-> Ball, importance |-> -500],
    [type |-> "semantic", concept |-> Ball, connections |-> <<"toy">>],
    [type |-> "procedural", action |-> "fetch"],
    [type |-> "input", importance |-> 50] }

\* The queries handed to retrieveMemory in the runs explored
Queries == { [concept |-> Ball], [type |-> "episodic"] }

\* The clock step between MPU operations: one staleness window, so that a
\* record is exactly on the edge of the window after one step and beyond it
\* after two
MemTickSteps == {stalenessWindow}

calculateImportance(memory) ==
  LET emotional == IF Has(memory, "emotion") THEN 200 ELSE 0
      learning  == IF Has(memory, "type") /\ memory.type \in {"learning", "achievement"}
                   THEN 300 ELSE 0
      owner     == IF Has(memory, "context") /\ memory.context \cap {"owner", "user"} # {}
                   THEN 200 ELSE 0
      novel     == IF Has(memory, "novelty") /\ memory.novelty > 700 THEN 200 ELSE 0
  IN Min(1000, 500 + emotional + learning + owner + novel)

\* memory.importance || this.calculateImportance(memory)
importanceOrDefault(memory) ==
  IF Has(memory, "importance") /\ memory.importance # 0
  THEN memory.importance
  ELSE calculateImportance(memory)

enhanceMemory(memory) ==
  Spread(memory, [id |-> nextMemId, timestamp |-> now,
                  importance |-> importanceOrDefault(memory),
                  retrievalCount |-> 0, lastRetrieved |-> 0])

\* storeEpisodicMemory without its size limit
storeEpisodicMemory_NoLimit(memory) == Append(episodicMemory, memory)

\* the array after storeEpisodicMemory(memory)
storeEpisodicMemory(memory) ==
  LET pushed == Append(episodicMemory, memory)
  IN IF Len(pushed) > maxEpisodic
     THEN SortDesc(FirstN(SortDesc(pushed, ImportanceOf), maxEpisodic), TimestampOf)
     ELSE pushed

\* existing.strength || 1
StrengthOr1(v) == IF Has(v, "strength") /\ v.strength # 0 THEN v.strength ELSE 1000
EntryStrength(e) == StrengthOr1(e.value)

\* existing.connections || []
ConnectionsOf(v) == IF Has(v, "connections") THEN v.connections ELSE <<>>

semanticKey(memory) ==
  IF Has(memory, "concept") THEN memory.concept ELSE <<"semantic_", "t", now>>

\* the Map after storeSemanticMemory(memory), applied to the Map sem
storeSemanticMemory(sem, memory) ==
  LET key == semanticKey(memory)
      present == \E i \in 1..Len(sem) : sem[i].key = key
      merged(existing) ==
        Spread(Spread(existing, memory),
               [strength |-> StrengthOr1(existing) + 100,
                connections |-> ConnectionsOf(existing) \o ConnectionsOf(memory)])
      stored ==
        IF present
        THEN [i \in 1..Len(sem) |->
                IF sem[i].key = key
                THEN [key |-> key, value |-> merged(sem[i].value)]
                ELSE sem[i]]
        ELSE Append(sem, [key |-> key, value |-> memory])
  IN IF Len(stored) > maxSemantic
     THEN FirstN(SortDesc(stored, EntryStrength), maxSemantic)
     ELSE stored

procedureOf(memory) ==
  IF Has(memory, "procedure") THEN memory.procedure
  ELSE IF Has(memory, "action") THEN memory.action
  ELSE "unknown"

\* the Map after storeProceduralMemory(memory)
storeProceduralMemory(memory) ==
  LET procedure == procedureOf(memory)
      entry == Spread(memory,
                 [successRate |-> IF Has(memory, "successRate") /\ memory.successRate # 0
                                  THEN memory.successRate ELSE 500,
                  executionCount |-> 1])
  IN IF \E i \in 1..Len(proceduralMemory) : proceduralMemory[i].key = procedure
     THEN [i \in 1..Len(proceduralMemory) |->
             IF proceduralMemory[i].key = procedure
             THEN [key |-> procedure,
                   value |-> Append(proceduralMemory[i].value, entry)]
             ELSE proceduralMemory[i]]
     ELSE Append(proceduralMemory, [key |-> procedure, value |-> <<entry>>])

\* the Map after storeGeneralMemory(memory)
storeGeneralMemory(memory) == Append(memoryStore, memory)

MemType(memory) == IF Has(memory, "type") THEN memory.type ELSE "undefined"

\* File names are tuples of their parts: `pet_${petId}.json` is
\* <<"pet_", petId, ".json">>.  A document is the array that JSON.parse
\* answers for its text: the records of the runs explored hold numbers,
\* strings, booleans and null only, which JSON.stringify writes and
\* JSON.parse reads back as they are.
episodicFile == <<"episodic.json">>
semanticFile == <<"semantic.json">>

\* the name persistMemory builds: memory.petId || 'default'
petFile(memory) ==
  <<"pet_", IF Has(memory, "petId") THEN memory.petId ELSE "default", ".json">>

\* fs.writeFile(name, JSON.stringify(content)) on the directory fs
writeFile(fs, name, content) ==
  [n \in DOMAIN fs \cup {name} |-> IF n = name THEN content ELSE fs[n]]

\* the petMemories of persistMemory after its read: the parsed document, or
\* [] when readFile raises
readPetMemories(fs, name) == IF name \in DOMAIN fs THEN fs[name] ELSE <<>>

\* the array persistMemory writes: the memory pushed, and the persistLimit
\* most important kept when there are more
addPersisted(petMemories, memory) ==
  LET pushed == Append(petMemories, memory)
  IN IF Len(pushed) > persistLimit
     THEN FirstN(SortDesc(pushed, ImportanceOf), persistLimit)
     ELSE pushed

\* the directory after a persistMemory(memory) that no other call overlaps
persistMemory(fs, memory) ==
  writeFile(fs, petFile(memory),
            addPersisted(readPetMemories(fs, petFile(memory)), memory))

\* storeMemory(memory) up to its await: the record is built and stored in
\* the partition of its type
storeRecord(memory) ==
  LET enhanced == enhanceMemory(memory)
      type == MemType(memory)
  IN /\ mpuStats.totalMemories < MaxStores
     /\ episodicMemory' =
          IF type = "episodic" THEN storeEpisodicMemory(enhanced) ELSE episodicMemory
     /\ semanticMemory' =
          IF type = "semantic" THEN storeSemanticMemory(semanticMemory, enhanced)
          ELSE semanticMemory
     /\ proceduralMemory' =
          IF type = "procedural" THEN storeProceduralMemory(enhanced)
          ELSE proceduralMemory
     /\ memoryStore' =
          IF type \notin {"episodic", "semantic", "procedural"}
          THEN storeGeneralMemory(enhanced) ELSE memoryStore
     /\ mpuStats' = [mpuStats EXCEPT !.totalMemories = @ + 1]
     /\ nextMemId' = nextMemId + 1
     /\ mpuLast' = [op |-> "store", n |-> mpuLast.n + 1, id |-> enhanced.id,
                    evicted |-> type = "episodic" /\ Len(episodicMemory) >= maxEpisodic,
                    ids |-> <<>>]

\* storeMemory(memory), in a run in which no other call starts while it
\* waits for persistMemory and the file operations succeed.
StoreMemory(memory) ==
  /\ storeRecord(memory)
  /\ files' = IF enhanceMemory(memory).importance > persistThreshold
              THEN persistMemory(files, enhanceMemory(memory)) ELSE files
  /\ UNCHANGED <<now, hasrVars, loopVars, wonderVars, identityVars, systemVars,
                 sspVars, inflight>>

\* A storeMemory call that has reached an await or has returned: `at` is the
\* file operation of persistMemory it waits for, or "returned"; petMemories
\* is the local array of persistMemory; readOk and written say how its file
\* operations ended; raised says that the promise of the call was rejected.
storeCall(memory, at) ==
  [call |-> "storeMemory", at |-> at, memory |-> memory, petMemories |-> <<>>,
   readOk |-> FALSE, written |-> FALSE, raised |-> FALSE]

\* storeMemory(memory) called: it runs to `await fs.readFile` of
\* persistMemory, or to its return when the record is not persisted
StoreMemoryCall(memory) ==
  /\ storeRecord(memory)
  /\ inflight' = Append(inflight,
                        storeCall(enhanceMemory(memory),
                                  IF enhanceMemory(memory).importance > persistThreshold
                                  THEN "read" ELSE "returned"))
  /\ UNCHANGED <<now, hasrVars, loopVars, wonderVars, identityVars, systemVars,
                 sspVars, files>>

\* persistMemory after its readFile: the inner catch leaves petMemories
\* empty when the read raises, and the call goes on to the write
afterRead(call, fs, ok) ==
  [call EXCEPT !.at = "write", !.readOk = ok,
               !.petMemories = IF ok THEN readPetMemories(fs, petFile(call.memory))
                               ELSE <<>>]

\* persistMemory after its writeFile, without the outer catch
afterWrite_NoCatch(call, ok) ==
  [call EXCEPT !.at = "returned", !.written = ok, !.raised = ~ok]

\* persistMemory after its writeFile: the outer catch logs a failure, and
\* storeMemory returns the record
afterWrite(call, ok) ==
  [call EXCEPT !.at = "returned", !.written = ok]

\* the readFile of the call at place i of `inflight` completes; ok says
\* that it met no error other than a document that does not exist yet
PersistRead(i, ok) ==
  /\ i \in 1..Len(inflight)
  /\ inflight[i].at = "read"
  /\ inflight' = [inflight EXCEPT ![i] = afterRead(@, files, ok)]
  /\ UNCHANGED <<now, mpuVars, hasrVars, loopVars, wonderVars, identityVars,
                 systemVars, sspVars, files>>

\* the writeFile of the call at place i of `inflight` completes
PersistWrite(i, ok) ==
  /\ i \in 1..Len(inflight)
  /\ inflight[i].at = "write"
  /\ files' = IF ok
              THEN writeFile(files, petFile(inflight[i].memory),
                             addPersisted(inflight[i].petMemories, inflight[i].memory))
              ELSE files
  /\ inflight' = [inflight EXCEPT ![i] = afterWrite(@, ok)]
  /\ UNCHANGED <<now, mpuVars, hasrVars, loopVars, wonderVars, identityVars,
                 systemVars, sspVars>>

\* semanticMatch(memory, query) for an object query
semanticMatch(memory, query) ==
  IF Has(query, "concept") /\ Has(memory, "concept")
  THEN query.concept = memory.concept
  ELSE IF Has(query, "type") /\ Has(memory, "type")
  THEN query.type = memory.type
  ELSE FALSE

\* The positions searchEpisodicMemory(query) returns.  JSON.stringify of an
\* object query is never a substring of JSON.stringify of a stored record,
\* which has more properties than the query, so semanticMatch decides.
searchEpisodicMemory(query) ==
  LET Hit(i) == semanticMatch(episodicMemory[i], query)
      idx == [i \in 1..Len(episodicMemory) |-> i]
  IN FirstN(FilterSeq(idx, Hit), episodicSearchLimit)

\* The positions searchSemanticMemory(query) returns
searchSemanticMemory(query) ==
  LET Hit(i) == semanticMatch(semanticMemory[i].value, query)
      idx == [i \in 1..Len(semanticMemory) |-> i]
  IN FirstN(FilterSeq(idx, Hit), semanticSearchLimit)

\* memory.retrievalCount++; memory.lastRetrieved = Date.now().  A record
\* without a retrievalCount has NaN afterwards, kept here as still missing.
touch(memory) ==
  Spread(memory,
         IF Has(memory, "retrievalCount")
         THEN [retrievalCount |-> memory.retrievalCount + 1, lastRetrieved |-> now]
         ELSE [lastRetrieved |-> now])

\* importance * (1 + retrievalCount * 0.1), in thousandths
retrievalScore(memory) ==
  IF Has(memory, "importance") /\ Has(memory, "retrievalCount")
  THEN Mul(memory.importance, 1000 + memory.retrievalCount * 100)
  ELSE 0

\* What retrieveMemory(query) computes: the matched records are updated
\* where they are stored, and the result is the updated records sorted by
\* score.
retrieveResults(query) ==
  LET epi == searchEpisodicMemory(query)
      sem == searchSemanticMemory(query)
      InSeq(s, i) == \E k \in 1..Len(s) : s[k] = i
      epiAfter == [i \in 1..Len(episodicMemory) |->
                     IF InSeq(epi, i) THEN touch(episodicMemory[i])
                     ELSE episodicMemory[i]]
      semAfter == [i \in 1..Len(semanticMemory) |->
                     IF InSeq(sem, i)
                     THEN [key |-> semanticMemory[i].key,
                           value |-> touch(semanticMemory[i].value)]
                     ELSE semanticMemory[i]]
      results == [k \in 1..Len(epi) |-> epiAfter[epi[k]]]
                 \o [k \in 1..Len(sem) |-> semAfter[sem[k]].value]
  IN [episodic |-> epiAfter, semantic |-> semAfter,
      matched |-> [episodic |-> {epi[k] : k \in 1..Len(epi)},
                  semantic |-> {sem[k] : k \in 1..Len(sem)}],
      results |-> SortDesc(results, retrievalScore)]

\* retrieveMemory(query)
retrieveMemory(query) ==
  LET done == retrieveResults(query)
  IN /\ episodicMemory' = done.episodic
     /\ semanticMemory' = done.semantic
     /\ mpuStats' = [mpuStats EXCEPT !.retrievals = @ + 1]
     /\ mpuLast' = [op |-> "retrieve", n |-> mpuLast.n + 1, id |-> 0,
                    evicted |-> FALSE,
                    ids |-> [k \in 1..Len(done.results) |->
                               IF Has(done.results[k], "id") THEN done.results[k].id
                               ELSE 0]]
     /\ UNCHANGED <<proceduralMemory, memoryStore, nextMemId>>

\* a retrieveMemory(query) call on the memory store alone, with no listener
\* on its 'memory_retrieved' event
RetrieveMemory(query) ==
  /\ mpuStats.retrievals < MaxRetrievals
  /\ retrieveMemory(query)
  /\ UNCHANGED <<now, exceptMpu>>

extractPatternKey(memory) ==
  IF Has(memory, "action") THEN <<"action_", memory.action>>
  ELSE IF Has(memory, "concept") THEN <<"concept_">> \o memory.concept
  ELSE IF Has(memory, "type") THEN <<"type_", memory.type>>
  ELSE <<"general">>

\* findPatterns(memories): one entry per key, in order of first appearance
findPatterns(memories) ==
  LET keys == [i \in 1..Len(memories) |-> extractPatternKey(memories[i])]
      First(i) == \A j \in 1..(i - 1) : keys[j] # keys[i]
      idx == [i \in 1..Len(memories) |-> i]
      firsts == FilterSeq(idx, First)
      Count(k) == Cardinality({i \in 1..Len(memories) : keys[i] = k})
  IN [p \in 1..Len(firsts) |->
        [concept |-> keys[firsts[p]],
         count |-> Count(keys[firsts[p]]),
         strength |-> (Count(keys[firsts[p]]) * 1000) \div Len(memories)]]

\* consolidateMemories() writing a semantic record for every group
consolidateMemories_NoThreshold ==
  LET found == findPatterns(LastN(episodicMemory, consolidationBatch))
      F[n \in 0..Len(found)] ==
        IF n = 0 THEN [sem |-> semanticMemory, made |-> 0]
        ELSE [sem |-> storeSemanticMemory(F[n - 1].sem,
                        [type |-> "semantic", concept |-> found[n].concept,
                         strength |-> found[n].strength,
                         source |-> "consolidation", timestamp |-> now]),
              made |-> F[n - 1].made + 1]
  IN F[Len(found)]

\* the semantic Map and the number of consolidations after consolidateMemories()
consolidateMemories ==
  LET found == findPatterns(LastN(episodicMemory, consolidationBatch))
      F[n \in 0..Len(found)] ==
        IF n = 0 THEN [sem |-> semanticMemory, made |-> 0]
        ELSE LET before == F[n - 1]
             IN IF found[n].strength > consolidationThreshold
                THEN [sem |-> storeSemanticMemory(before.sem,
                                [type |-> "semantic", concept |-> found[n].concept,
                                 strength |-> found[n].strength,
                                 source |-> "consolidation", timestamp |-> now]),
                      made |-> before.made + 1]
                ELSE before
  IN F[Len(found)]

\* memory.importance *= this.config.importanceDecay
decayImportance(memory) ==
  [memory EXCEPT !.importance = Mul(@, importanceDecay)]

\* shouldForget, evaluated on the record after its decay
shouldForget(memory) ==
  /\ memory.importance < forgetFloor
  /\ (memory.lastRetrieved = 0 \/ now - memory.lastRetrieved > stalenessWindow)

\* the array after forgetUnimportantMemories()
forgetUnimportantMemories ==
  LET decayed == [i \in 1..Len(episodicMemory) |-> decayImportance(episodicMemory[i])]
      Keep(m) == ~shouldForget(m)
  IN FilterSeq(decayed, Keep)

\* The 30 s timer of startConsolidationProcess: consolidateMemories() and
\* then forgetUnimportantMemories()
ConsolidationTimer ==
  LET c == consolidateMemories
      kept == forgetUnimportantMemories
  IN /\ mpuStats.sweeps < MaxMemSweeps
     /\ semanticMemory' = c.sem
     /\ episodicMemory' = kept
     /\ mpuStats' = [mpuStats EXCEPT
                       !.consolidations = @ + c.made,
                       !.retentionRate = (Len(kept) * 1000) \div maxEpisodic,
                       !.sweeps = @ + 1]
     /\ mpuLast' = [op |-> "sweep", n |-> mpuLast.n + 1, id |-> 0,
                    evicted |-> FALSE, ids |-> <<>>]
     /\ UNCHANGED <<now, proceduralMemory, memoryStore, nextMemId, exceptMpu>>

\* Time passing between two MPU operations
MemTick(d) ==
  /\ now + d <= MaxNow
  /\ now' = now + d
  /\ UNCHANGED <<mpuVars, exceptMpu>>

\* The partitions of a new MPUComponent after loadPersistedMemories() on the
\* directory fs
loadPersistedMemories(fs) ==
  LET entries == IF semanticFile \in DOMAIN fs THEN fs[semanticFile] ELSE <<>>
      Set(map, mem) ==
        IF \E i \in 1..Len(map) : map[i].key = mem.key
        THEN [i \in 1..Len(map) |->
                IF map[i].key = mem.key THEN [key |-> mem.key, value |-> mem.value]
                ELSE map[i]]
        ELSE Append(map, [key |-> mem.key, value |-> mem.value])
      F[n \in 0..Len(entries)] ==
        IF n = 0 THEN <<>> ELSE Set(F[n - 1], entries[n])
  IN [episodic |-> IF episodicFile \in DOMAIN fs THEN fs[episodicFile] ELSE <<>>,
      semantic |-> F[Len(entries)]]

\* shutdown(): the two checkpoint documents are written inside one try;
\* `written` is the number of writeFile calls that succeed before one raises
MpuShutdown(written) ==
  LET episodic == writeFile(files, episodicFile, LastN(episodicMemory, checkpointLimit))
      semantic == writeFile(episodic, semanticFile, semanticMemory)
  IN /\ mpuStats.shutdowns < MaxShutdowns
     /\ files' = IF written = 0 THEN files
                 ELSE IF written = 1 THEN episodic ELSE semantic
     /\ mpuStats' = [mpuStats EXCEPT !.shutdowns = @ + 1]
     /\ mpuLast' = [op |-> "shutdown", n |-> mpuLast.n + 1, id |-> 0,
                    evicted |-> FALSE, ids |-> <<>>]
     /\ UNCHANGED <<now, episodicMemory, semanticMemory, proceduralMemory,
                    memoryStore, nextMemId, hasrVars, loopVars, wonderVars,
                    identityVars, systemVars, sspVars, inflight>>

\* initialize() of a new MPUComponent on the directory the last one left
MpuInitialize ==
  LET loaded == loadPersistedMemories(files)
  IN /\ mpuLast.op = "shutdown"
     /\ episodicMemory' = loaded.episodic
     /\ semanticMemory' = loaded.semantic
     /\ proceduralMemory' = <<>>
     /\ memoryStore' = <<>>
     /\ mpuStats' = [mpuStats EXCEPT
                       !.totalMemories = Len(loaded.episodic) + Len(loaded.semantic),
                       !.retrievals = 0, !.consolidations = 0,
                       !.retentionRate = 850]
     /\ mpuLast' = [op |-> "load", n |-> mpuLast.n + 1, id |-> 0,
                    evicted |-> FALSE, ids |-> <<>>]
     /\ UNCHANGED <<now, nextMemId, exceptMpu>>

\* the directory is empty and no call waits
InitIO ==
  /\ files = <<>>
  /\ inflight = <<>>

InitMPU ==
  /\ episodicMemory = <<>>
  /\ semanticMemory = <<>>
  /\ proceduralMemory = <<>>
  /\ memoryStore = <<>>
  /\ mpuStats = [totalMemories |-> 0, retrievals |-> 0, consolidations |-> 0,
                 retentionRate |-> 850, sweeps |-> 0, shutdowns |-> 0]
  /\ nextMemId = 1
  /\ mpuLast = [op |-> "none", n |-> 0, id |-> 0, evicted |-> FALSE, ids |-> <<>>]

----------------------------------------------------------------------------
(* HASRComponent (src/server/src/lib/lucian/aetheron.js, from line 648) *)

\* A feature is a tuple: the plain feature 'joy' is <<"joy">> and the feature
\* `action:${a}` is <<"action", a>>, so that f.includes(':') is Len(f) = 2 and
\* f.split(':')[0] is <<f[1]>>.

\* The inputs handed to processPattern in the runs explored: an array equal to
\* a base template, and the object {action: 'feed'}
JoyArray == [kind |-> "array",
             items |-> << <<"joy">>, <<"engagement">>, <<"reward">> >>]
FeedObject == [kind |-> "object", obj |-> [action |-> "feed"]]
PatternInputs == {JoyArray, FeedObject}

\* an array that shares two of its three features with a base template: it
\* is learned as a novel pattern connected to that base pattern
JoyPairArray == [kind |-> "array",
                 items |-> << <<"joy">>, <<"engagement">> >>]
ConnectedInputs == {JoyArray, JoyPairArray}

\* extractFeatures(obj); `symbols` and `content` are absent from the inputs explored
hasrExtractFeatures(obj) ==
  LET t == IF Has(obj, "type") THEN << <<"type", obj.type>> >> ELSE <<>>
      e == IF Has(obj, "emotion") THEN << <<"emotion", obj.emotion>> >> ELSE <<>>
      a == IF Has(obj, "action") THEN << <<"action", obj.action>> >> ELSE <<>>
      features == t \o e \o a
  IN IF Len(features) > 0 THEN features ELSE << <<"unknown">> >>

\* preprocessInput(input); the timestamp and the context of the processed
\* pattern are read by nothing in the engine and are left out
preprocessInput(input) ==
  IF input.kind = "array" THEN [features |-> input.items]
  ELSE IF input.kind = "object" THEN [features |-> hasrExtractFeatures(input.obj)]
  ELSE [features |-> <<input.value>>]

SeqToSet(s) == {s[i] : i \in 1..Len(s)}

\* calculateResonance with the confidence factor left out
calculateResonance_NoConfidence(pattern1, pattern2) ==
  IF ~Has(pattern1, "features") \/ ~Has(pattern2, "template") THEN 0
  ELSE LET features1 == SeqToSet(pattern1.features)
           features2 == SeqToSet(pattern2.template)
           union == features1 \cup features2
       IN IF Cardinality(union) = 0 THEN 0
          ELSE (Cardinality(features1 \cap features2) * 1000) \div Cardinality(union)

\* calculateResonance(pattern1, pattern2): Jaccard similarity times confidence
calculateResonance(pattern1, pattern2) ==
  IF ~Has(pattern1, "features") \/ ~Has(pattern2, "template") THEN 0
  ELSE LET features1 == SeqToSet(pattern1.features)
           features2 == SeqToSet(pattern2.template)
           union == features1 \cup features2
           similarity ==
             (Cardinality(features1 \cap features2) * 1000) \div Cardinality(union)
           confidence == IF Has(pattern2, "confidence") /\ pattern2.confidence # 0
                         THEN pattern2.confidence ELSE 1000
       IN IF Cardinality(union) = 0 THEN 0 ELSE Mul(similarity, confidence)

\* the abstract patterns stored in the hierarchy levels, which have
\* `features` and no `template`
HierarchicalPatterns ==
  UNION {{[features |-> k, level |-> l + 1] : k \in hierarchies[l].patterns} :
           l \in DOMAIN hierarchies}

\* findResonance(pattern): the best resonance and the position in
\* this.patterns of the pattern that has it (0: none).  A later pattern
\* replaces the best one only with a strictly greater resonance.
findResonance(pattern) ==
  LET F[n \in 0..Len(patterns)] ==
        IF n = 0 THEN [resonance |-> 0, idx |-> 0, hierarchical |-> FALSE]
        ELSE LET r == calculateResonance(pattern, patterns[n])
                 best == F[n - 1]
             IN IF r > best.resonance
                THEN [resonance |-> r, idx |-> n, hierarchical |-> FALSE]
                ELSE best
      stored == F[Len(patterns)]
  IN IF \E h \in HierarchicalPatterns : calculateResonance(pattern, h) > stored.resonance
     THEN [resonance |-> CHOOSE r \in 0..1000 :
                           /\ \E h \in HierarchicalPatterns :
                                calculateResonance(pattern, h) = r
                           /\ \A h \in HierarchicalPatterns :
                                calculateResonance(pattern, h) <= r,
           idx |-> 0, hierarchical |-> TRUE]
     ELSE stored

\* findCommonFeatures(instances): the features present in at least half of
\* the instances, in order of first appearance
findCommonFeatures(instances) ==
  LET all == LET G[n \in 0..Len(instances)] ==
                   IF n = 0 THEN <<>> ELSE G[n - 1] \o instances[n].features
             IN G[Len(instances)]
      Count(f) == Cardinality({i \in 1..Len(all) : all[i] = f})
      idx == [i \in 1..Len(all) |-> i]
      Common(i) == /\ \A j \in 1..(i - 1) : all[j] # all[i]
                   /\ 2 * Count(all[i]) >= Len(instances)
      kept == FilterSeq(idx, Common)
  IN [k \in 1..Len(kept) |-> all[kept[k]]]

\* calculatePatternConfidence(pattern)
calculatePatternConfidence(pattern) ==
  IF Len(pattern.instances) < 2 THEN 500
  ELSE LET allFeatures == UNION {SeqToSet(pattern.instances[i].features) :
                                   i \in 1..Len(pattern.instances)}
           consistency == (Len(pattern.template) * 1000) \div Cardinality(allFeatures)
           experienceFactor == Min(1000, Len(pattern.instances) * 100)
       IN Mul(consistency, 700) + Mul(experienceFactor, 300)

ConnectionsFrom(name) ==
  IF \E i \in 1..Len(resonanceNetwork) : resonanceNetwork[i].key = name
  THEN (CHOOSE e \in SeqToSet(resonanceNetwork) : e.key = name).value
  ELSE <<>>

\* reinforceConnections(pattern), applied to the pattern Map ps: every
\* connected pattern's strength is multiplied by 1 + connection.strength * 0.1
reinforceConnections(ps, name) ==
  LET conns == ConnectionsFrom(name)
      F[n \in 0..Len(conns)] ==
        IF n = 0 THEN ps
        ELSE LET before == F[n - 1]
             IN [i \in 1..Len(ps) |->
                   IF before[i].name = conns[n].target
                   THEN [before[i] EXCEPT
                           !.strength = Mul(@, 1000 + Mul(conns[n].strength, 100))]
                   ELSE before[i]]
  IN F[Len(conns)]

\* strengthenPattern without the Math.min(1, ...) of the strength
strengthenPattern_NoCap(idx, newInstance) ==
  LET old == patterns[idx]
      instances == Append(old.instances, newInstance)
      withTemplate ==
        [old EXCEPT !.instances = instances,
                    !.strength = Mul(old.strength, reinforcementFactor),
                    !.template = IF Len(instances) > 1
                                 THEN findCommonFeatures(instances) ELSE @]
      updated == [withTemplate EXCEPT
                    !.confidence = calculatePatternConfidence(withTemplate)]
  IN reinforceConnections([patterns EXCEPT ![idx] = updated], old.name)

\* the pattern Map after strengthenPattern(this.patterns[idx], newInstance)
strengthenPattern(idx, newInstance) ==
  LET old == patterns[idx]
      instances == Append(old.instances, newInstance)
      withTemplate ==
        [old EXCEPT !.instances = instances,
                    !.strength = Min(1000, Mul(old.strength, reinforcementFactor)),
                    !.template = IF Len(instances) > 1
                                 THEN findCommonFeatures(instances) ELSE @]
      updated == [withTemplate EXCEPT
                    !.confidence = calculatePatternConfidence(withTemplate)]
  IN reinforceConnections([patterns EXCEPT ![idx] = updated], old.name)

\* createResonanceConnections(patternName, pattern): the connections to the
\* other patterns that resonate above 0.3
createResonanceConnections(ps, patternName, pattern) ==
  LET Linked(i) == /\ ps[i].name # patternName
                   /\ calculateResonance([features |-> pattern.template], ps[i])
                        > connectionFloor
      idx == [i \in 1..Len(ps) |-> i]
      linked == FilterSeq(idx, Linked)
  IN [k \in 1..Len(linked) |->
        [target |-> ps[linked[k]].name,
         strength |-> calculateResonance([features |-> pattern.template],
                                         ps[linked[k]])]]

\* the pattern learnNovelPattern(pattern) creates
novelPattern(pattern) ==
  [name |-> <<"pattern_", nextPatternId>>,
   template |-> pattern.features,
   strength |-> 500 + noveltyBonus,
   instances |-> <<pattern>>,
   confidence |-> 500,
   level |-> 0,
   timestamp |-> now]

\* f.includes(':') ? f.split(':')[0] : f
abstractFeature(f) == IF Len(f) = 2 THEN <<f[1]>> ELSE f

\* The feature lists abstractPattern(pattern, level) can return: each
\* feature is kept or dropped by Math.random(), and the kept ones are
\* reduced to their category.
abstractPatterns(features) ==
  {LET kept == FilterSeq([i \in 1..Len(features) |-> i],
                         LAMBDA i : i \in keep)
   IN [k \in 1..Len(kept) |-> abstractFeature(features[kept[k]])] :
     keep \in SUBSET (1..Len(features))}

\* The chains of abstractions updateHierarchy(pattern) can store, one per
\* level from `level` to hierarchyDepth - 2
RECURSIVE abstractionChains(_, _)
abstractionChains(features, level) ==
  IF level >= hierarchyDepth - 1 THEN {<<>>}
  ELSE UNION {{<<a>> \o rest : rest \in abstractionChains(a, level + 1)} :
                a \in abstractPatterns(features)}

\* the hierarchy after updateHierarchy(pattern) has stored `chain`; from
\* level 1 on, createHierarchicalConnection appends one connection to the
\* level below
updateHierarchy(chain) ==
  [l \in DOMAIN hierarchies |->
     [patterns |-> IF l + 1 <= Len(chain)
                   THEN hierarchies[l].patterns \cup {chain[l + 1]}
                   ELSE hierarchies[l].patterns,
      connections |-> IF l + 2 <= Len(chain)
                      THEN hierarchies[l].connections + 1
                      ELSE hierarchies[l].connections]]

\* processPattern(input) up to its updateHierarchy call: the resonance
\* search, then strengthenPattern or learnNovelPattern
learnPattern(input) ==
  LET processed == preprocessInput(input)
      found == findResonance(processed)
      resonates == found.resonance > resonanceThreshold
      novel == novelPattern(processed)
      learned == Append(patterns, novel)
  IN /\ patterns' = IF resonates THEN strengthenPattern(found.idx, processed)
                    ELSE learned
     /\ resonanceNetwork' =
          IF resonates THEN resonanceNetwork
          ELSE Append(resonanceNetwork,
                      [key |-> novel.name,
                       value |-> createResonanceConnections(learned, novel.name, novel)])
     /\ nextPatternId' = IF resonates THEN nextPatternId ELSE nextPatternId + 1
     /\ hasrStats' =
          [hasrStats EXCEPT
             !.patternsLearned = IF resonates THEN @ ELSE @ + 1,
             !.singleShotSuccesses =
                IF /\ resonates
                   /\ found.resonance > singleShotBar
                   /\ Len(patterns[found.idx].instances) = 0
                THEN @ + 1 ELSE @,
             !.calls = @ + 1]
     /\ hasrLog' = Append(hasrLog,
                     [features |-> processed.features,
                      resonance |-> found.resonance,
                      created |-> IF resonates THEN <<>> ELSE novel.name,
                      matched |-> IF resonates THEN patterns[found.idx].name ELSE <<>>,
                      strength |-> IF resonates THEN patterns'[found.idx].strength
                                   ELSE novel.strength,
                      confidence |-> IF resonates THEN patterns'[found.idx].confidence
                                     ELSE novel.confidence])

\* processPattern(input)
ProcessPattern(input) ==
  /\ hasrStats.calls < MaxPatternCalls
  /\ input.kind = "array" => hasrStats.calls < MaxArrayCalls
  /\ learnPattern(input)
  /\ \E chain \in abstractionChains(preprocessInput(input).features, 0) :
       hierarchies' = updateHierarchy(chain)
  /\ UNCHANGED <<now, exceptHasr>>

\* pattern.strength *= this.config.patternDecay
decayPattern(pattern) == [pattern EXCEPT !.strength = Mul(@, patternDecay)]

\* The 5 s timer of startResonanceMonitoring: decay, removal of the patterns
\* below 0.01 together with their connections, average confidence
ResonanceMonitor ==
  LET decayed == [i \in 1..Len(patterns) |-> decayPattern(patterns[i])]
      Alive(p) == ~(p.strength < patternFloor)
      kept == FilterSeq(decayed, Alive)
      KeptEntry(e) == \E i \in 1..Len(kept) : kept[i].name = e.key
      total == LET G[n \in 0..Len(kept)] ==
                     IF n = 0 THEN 0 ELSE G[n - 1] + kept[n].confidence
               IN G[Len(kept)]
  IN /\ hasrStats.sweeps < MaxPatternSweeps
     /\ patterns' = kept
     /\ resonanceNetwork' = FilterSeq(resonanceNetwork, KeptEntry)
     /\ hasrStats' = [hasrStats EXCEPT
                        !.averageConfidence =
                           IF Len(kept) > 0 THEN total \div Len(kept) ELSE 0,
                        !.sweeps = @ + 1]
     /\ hasrLog' = <<>>
     /\ UNCHANGED <<now, exceptHasr, hierarchies, nextPatternId>>

basePatterns ==
  << [name |-> <<"interaction_positive">>,
      template |-> << <<"joy">>, <<"engagement">>, <<"reward">> >>],
     [name |-> <<"interaction_negative">>,
      template |-> << <<"fear">>, <<"avoidance">>, <<"punishment">> >>],
     [name |-> <<"exploration">>,
      template |-> << <<"curiosity">>, <<"movement">>, <<"discovery">> >>],
     [name |-> <<"rest">>,
      template |-> << <<"calm">>, <<"stillness">>, <<"recovery">> >>],
     [name |-> <<"play">>,
      template |-> << <<"excitement">>, <<"movement">>, <<"joy">> >>],
     [name |-> <<"learning">>,
      template |-> << <<"attention">>, <<"repetition">>, <<"understanding">> >>] >>

\* the state after initialize(): initializeBasePatterns() and buildHierarchy()
InitHASR ==
  /\ patterns = [i \in 1..Len(basePatterns) |->
                   [name |-> basePatterns[i].name,
                    template |-> basePatterns[i].template,
                    strength |-> 1000, instances |-> <<>>,
                    confidence |-> 900, level |-> 0]]
  /\ resonanceNetwork = <<>>
  /\ hierarchies = [l \in 0..(hierarchyDepth - 1) |->
                      [patterns |-> {}, connections |-> 0]]
  /\ hasrStats = [patternsLearned |-> Len(basePatterns), singleShotSuccesses |-> 0,
                  hierarchyLevels |-> hierarchyDepth, averageConfidence |-> 700,
                  sweeps |-> 0, calls |-> 0]
  /\ nextPatternId = 1
  /\ hasrLog = <<>>

----------------------------------------------------------------------------
(* GhostLoops (src/server/src/lib/lucian/ghostLoops.js) *)

\* A loop id is a tuple: the name 'feed' is <<"feed">> and `loop_${Date.now()}`
\* is <<"loop_", now>>.

FeedPattern == [trigger |-> <<"feed">>, response |-> <<"eat">>]

\* the patternData handed to crystallizePattern in the runs explored
CrystallizeInputs ==
  {[name |-> <<"feed">>, pattern |-> FeedPattern],
   [name |-> <<"feed_kitchen">>,
    pattern |-> Spread(FeedPattern, [context |-> [place |-> "kitchen"]]),
    strength |-> 950, category |-> "feeding"]}

\* the inputs handed to checkResonance
ResonanceInputs ==
  {[action |-> "feed"],
   [action |-> "feed", context |-> [place |-> "kitchen"]]}

\* the ids handed to triggerLoop and reinforceLoop
LoopIds == {<<"feed">>, <<"hunger_response">>, <<"missing">>}

LoopTickSteps == {recencyWindow}

\* no checkResonance result is at hand
noLoopResult == [op |-> "none", input |-> <<>>, result |-> <<>>]

\* generateResonanceSignature(pattern): elements.sort().join('_'), as the
\* number of occurrences of each element
generateResonanceSignature(pattern) ==
  LET elements == (IF Has(pattern, "trigger") THEN pattern.trigger ELSE <<>>)
                  \o (IF Has(pattern, "response") THEN pattern.response ELSE <<>>)
                  \o (IF Has(pattern, "action") THEN <<pattern.action>> ELSE <<>>)
  IN [e \in SeqToSet(elements) |->
        Cardinality({i \in 1..Len(elements) : elements[i] = e})]

\* a lookup that answers the last loop of the store for an id it does not hold
LoopIndex_AnyLoop(loops, id) ==
  IF \E i \in 1..Len(loops) : loops[i].id = id
  THEN CHOOSE i \in 1..Len(loops) : loops[i].id = id
  ELSE Len(loops)

\* the place of the loop with this id in the store, 0 when has(id) is false
LoopIndex(loops, id) ==
  IF \E i \in 1..Len(loops) : loops[i].id = id
  THEN CHOOSE i \in 1..Len(loops) : loops[i].id = id
  ELSE 0

\* Map.set(id, loop): an existing key keeps its position
MapSet(loops, loop) ==
  IF LoopIndex(loops, loop.id) = 0 THEN Append(loops, loop)
  ELSE [loops EXCEPT ![LoopIndex(loops, loop.id)] = loop]

\* the ghost loop crystallizePattern(patternData) builds
ghostLoop(patternData) ==
  [id |-> IF Has(patternData, "name") THEN patternData.name ELSE <<"loop_", now>>,
   pattern |-> IF Has(patternData, "pattern") THEN patternData.pattern ELSE patternData,
   strength |-> IF Has(patternData, "strength") /\ patternData.strength # 0
                THEN patternData.strength ELSE loopStrength,
   successCount |-> IF Has(patternData, "successCount")
                    THEN patternData.successCount ELSE 0,
   failureCount |-> 0,
   lastTriggered |-> 0,
   createdAt |-> now,
   category |-> IF Has(patternData, "category") THEN patternData.category
                ELSE "general",
   resonanceSignature |-> generateResonanceSignature(patternData.pattern)]

\* the Map after crystallizePattern(patternData)
crystallizePattern(loops, patternData) == MapSet(loops, ghostLoop(patternData))

\* the ghost record of the successes of loop `id`, first set by its
\* crystallization
RecordSuccesses(succ, id, count) ==
  IF id \in DOMAIN succ THEN succ
  ELSE [k \in DOMAIN succ \cup {id} |-> IF k = id THEN count ELSE succ[k]]

CrystallizePattern(patternData) ==
  LET loop == ghostLoop(patternData)
  IN /\ loopStats.calls < MaxCrystallize
     /\ crystallizedPatterns' = crystallizePattern(crystallizedPatterns, patternData)
     /\ loopStats' = [loopStats EXCEPT !.totalCrystallized = @ + 1, !.calls = @ + 1]
     /\ loopSuccesses' = RecordSuccesses(loopSuccesses, loop.id, loop.successCount)
     /\ loopLast' = noLoopResult
     /\ UNCHANGED <<now, exceptLoops, activeLoops, loopHistory>>

\* extractFeatures(input), for object inputs
loopExtractFeatures(input) ==
  (IF Has(input, "action") THEN <<input.action>> ELSE <<>>)
  \o (IF Has(input, "trigger") THEN <<input.trigger>> ELSE <<>>)
  \o (IF Has(input, "state") THEN <<input.state>> ELSE <<>>)
  \o (IF Has(input, "emotion") THEN <<input.emotion>> ELSE <<>>)
  \o (IF Has(input, "concept") THEN <<input.concept>> ELSE <<>>)
  \o (IF Has(input, "features") THEN input.features ELSE <<>>)

\* calculateFeatureMatch(features1, features2)
calculateFeatureMatch(features1, features2) ==
  LET set1 == SeqToSet(features1)
      set2 == SeqToSet(features2)
  IN IF Cardinality(set1 \cup set2) > 0
     THEN (Cardinality(set1 \cap set2) * 1000) \div Cardinality(set1 \cup set2)
     ELSE 0

\* calculateContextMatch(context1, context2)
calculateContextMatch(context1, context2) ==
  LET shared == DOMAIN context1 \cap DOMAIN context2
      matches == {k \in shared : context1[k] = context2[k]}
  IN IF Cardinality(shared) > 0
     THEN (Cardinality(matches) * 1000) \div Cardinality(shared)
     ELSE 0

\* calculateLoopResonance(input, loop)
calculateLoopResonance(input, loop) ==
  LET pattern == loop.pattern
      triggerPart ==
        IF Has(pattern, "trigger")
        THEN Mul(calculateFeatureMatch(loopExtractFeatures(input), pattern.trigger),
                 triggerWeight)
        ELSE 0
      contextPart ==
        IF Has(input, "context") /\ Has(pattern, "context")
        THEN Mul(calculateContextMatch(input.context, pattern.context), contextWeight)
        ELSE 0
      scaled == Mul(triggerPart + contextPart, loop.strength)
      boosted == IF loop.lastTriggered # 0 /\ now - loop.lastTriggered < recencyWindow
                 THEN Mul(scaled, recencyBoost) ELSE scaled
  IN Min(1000, boosted)

ResonanceOf(r) == r.resonance

\* checkResonance(input): the loops resonating above the threshold, by
\* descending resonance
checkResonance(input) ==
  LET all == [i \in 1..Len(crystallizedPatterns) |->
                [id |-> crystallizedPatterns[i].id,
                 resonance |-> calculateLoopResonance(input, crystallizedPatterns[i])]]
      Resonates(r) == r.resonance > loopResonanceThreshold
  IN SortDesc(FilterSeq(all, Resonates), ResonanceOf)

CheckResonance(input) ==
  /\ loopLast' = [op |-> "check", input |-> <<input>>,
                  result |-> checkResonance(input)]
  /\ UNCHANGED <<now, exceptLoops, crystallizedPatterns, activeLoops, loopHistory,
                 loopStats, loopSuccesses>>

\* Set.add(id) and Set.delete(id), on a Set kept in insertion order
SetAdd(set, id) ==
  IF \E i \in 1..Len(set) : set[i] = id THEN set ELSE Append(set, id)

SetDelete(set, id) == FilterSeq(set, LAMBDA x : x # id)

\* generateLoopResponse(loop), without the inferred emotion and the random
\* variation
generateLoopResponse(loop) ==
  [action |-> IF Has(loop.pattern, "response") THEN loop.pattern.response[1]
              ELSE "default_response",
   strength |-> loop.strength,
   category |-> loop.category,
   confidence |-> IF loop.strength < lowConfidenceBar THEN "low" ELSE "high"]

\* triggerLoop with the deactivation of the oldest active loop left out
makeRoom_NoEviction(active) == active

\* the active set after triggerLoop has deactivated the oldest loop of a
\* full set
makeRoom(active) ==
  IF Len(active) >= maxActiveLoops THEN SetDelete(active, active[1]) ELSE active

\* triggerLoop(loopId)
TriggerLoop(loopId) ==
  LET idx == LoopIndex(crystallizedPatterns, loopId)
      room == makeRoom(activeLoops)
      response == generateLoopResponse(crystallizedPatterns[idx])
      history == Append(loopHistory,
                        [loopId |-> loopId, timestamp |-> now, response |-> response])
  IN /\ loopStats.triggers < MaxTriggers
     /\ IF idx = 0
        THEN /\ loopLast' = noLoopResult
             /\ loopStats' = [loopStats EXCEPT !.triggers = @ + 1]
             /\ UNCHANGED <<crystallizedPatterns, activeLoops, loopHistory>>
        ELSE /\ activeLoops' = SetAdd(room, loopId)
             /\ crystallizedPatterns' =
                  [crystallizedPatterns EXCEPT ![idx].lastTriggered = now]
             /\ loopHistory' = IF Len(history) > loopHistoryLimit
                               THEN Tail(history) ELSE history
             /\ loopStats' = [loopStats EXCEPT
                                !.activeLoopCount = Len(SetAdd(room, loopId)),
                                !.successfulTriggers = @ + 1,
                                !.triggers = @ + 1]
             /\ loopLast' = noLoopResult
     /\ UNCHANGED <<now, exceptLoops, loopSuccesses>>

\* reinforceLoop(loopId, success)
ReinforceLoop(loopId, success) ==
  LET idx == LoopIndex(crystallizedPatterns, loopId)
  IN /\ loopStats.reinforcements < MaxReinforce
     /\ loopStats' = [loopStats EXCEPT !.reinforcements = @ + 1]
     /\ loopLast' = noLoopResult
     /\ IF idx = 0
        THEN UNCHANGED <<crystallizedPatterns, loopSuccesses>>
        ELSE IF success
        THEN /\ crystallizedPatterns' =
                  [crystallizedPatterns EXCEPT
                     ![idx].successCount = @ + 1,
                     ![idx].strength = Min(1000, @ + reinforcementBonus)]
             /\ loopSuccesses' = [loopSuccesses EXCEPT ![loopId] = @ + 1]
        ELSE /\ crystallizedPatterns' =
                  [crystallizedPatterns EXCEPT
                     ![idx].failureCount = @ + 1,
                     ![idx].strength = Max(weakenedFloor, @ - Mul(reinforcementBonus, 500))]
             /\ UNCHANGED loopSuccesses
     /\ UNCHANGED <<now, exceptLoops, activeLoops, loopHistory>>

\* [...new Set(s)]: the elements of s in order of first appearance
Unique(s) ==
  LET First(i) == \A j \in 1..(i - 1) : s[j] # s[i]
      firsts == FilterSeq([i \in 1..Len(s) |-> i], First)
  IN [k \in 1..Len(firsts) |-> s[firsts[k]]]

\* the data mergePatterns hands to crystallizePattern
mergedLoop(loop1, loop2) ==
  LET TriggerOf(loop) == IF Has(loop.pattern, "trigger") THEN loop.pattern.trigger ELSE <<>>
      ResponseOf(loop) == IF Has(loop.pattern, "response") THEN loop.pattern.response ELSE <<>>
  IN [name |-> <<"merged_", loop1.id, loop2.id>>,
      pattern |-> [trigger |-> Unique(TriggerOf(loop1) \o TriggerOf(loop2)),
                   response |-> Unique(ResponseOf(loop1) \o ResponseOf(loop2)),
                   category |-> loop1.category],
      strength |-> (loop1.strength + loop2.strength) \div 2,
      successCount |-> loop1.successCount + loop2.successCount,
      category |-> loop1.category]

\* mergePatterns(pattern1Id, pattern2Id)
MergePatterns(pattern1Id, pattern2Id) ==
  LET idx1 == LoopIndex(crystallizedPatterns, pattern1Id)
      idx2 == LoopIndex(crystallizedPatterns, pattern2Id)
      merged == mergedLoop(crystallizedPatterns[idx1], crystallizedPatterns[idx2])
      Other(loop) == loop.id # pattern1Id /\ loop.id # pattern2Id
      stored == crystallizePattern(FilterSeq(crystallizedPatterns, Other), merged)
      counted == RecordSuccesses(loopSuccesses, merged.name, merged.successCount)
  IN /\ loopStats.merges < MaxMerges
     /\ loopLast' = noLoopResult
     /\ IF idx1 = 0 \/ idx2 = 0
        THEN /\ loopStats' = [loopStats EXCEPT !.merges = @ + 1]
             /\ UNCHANGED <<crystallizedPatterns, loopSuccesses>>
        ELSE /\ crystallizedPatterns' = stored
             /\ loopStats' = [loopStats EXCEPT !.totalCrystallized = @ + 1,
                                               !.merges = @ + 1]
             /\ loopSuccesses' = [id \in {stored[i].id : i \in 1..Len(stored)} |->
                                    counted[id]]
     /\ UNCHANGED <<now, exceptLoops, activeLoops, loopHistory>>

IsActive(id) == \E i \in 1..Len(activeLoops) : activeLoops[i] = id

\* loop.strength *= this.config.decayRate
decayLoop(loop) == [loop EXCEPT !.strength = Mul(@, decayRate)]

\* The 5 s timer of startLoopMonitoring: decay of the inactive loops, removal
\* of those below 0.01, average strength, expiry of the old active loops
LoopMonitor ==
  LET decayed == [i \in 1..Len(crystallizedPatterns) |->
                    IF IsActive(crystallizedPatterns[i].id)
                    THEN crystallizedPatterns[i]
                    ELSE decayLoop(crystallizedPatterns[i])]
      Kept(loop) == IsActive(loop.id) \/ ~(loop.strength < loopFloor)
      kept == FilterSeq(decayed, Kept)
      total == LET G[n \in 0..Len(kept)] ==
                     IF n = 0 THEN 0 ELSE G[n - 1] + kept[n].strength
               IN G[Len(kept)]
      StillActive(id) ==
        LET idx == LoopIndex(kept, id)
        IN ~(idx # 0 /\ now - kept[idx].lastTriggered > activeWindow)
      active == FilterSeq(activeLoops, StillActive)
  IN /\ loopStats.sweeps < MaxLoopSweeps
     /\ crystallizedPatterns' = kept
     /\ activeLoops' = active
     /\ loopStats' = [loopStats EXCEPT
                        !.totalCrystallized = @ - (Len(decayed) - Len(kept)),
                        !.averageStrength =
                           IF Len(kept) > 0 THEN total \div Len(kept) ELSE 0,
                        !.activeLoopCount = IF active # activeLoops THEN Len(active) ELSE @,
                        !.sweeps = @ + 1]
     /\ loopSuccesses' = [id \in {kept[i].id : i \in 1..Len(kept)} |-> loopSuccesses[id]]
     /\ loopLast' = noLoopResult
     /\ UNCHANGED <<now, exceptLoops, loopHistory>>

LoopTick(d) ==
  /\ now + d <= MaxLoopNow
  /\ now' = now + d
  /\ UNCHANGED <<mpuVars, hasrVars, loopVars, wonderVars, identityVars, systemVars, sspVars, ioVars>>

coreBehaviors ==
  << [name |-> <<"friendly_greeting">>,
      pattern |-> [trigger |-> <<"see_owner", "morning", "return">>,
                   response |-> <<"excitement", "approach", "vocalize_happy">>,
                   category |-> "greeting"]],
     [name |-> <<"hunger_response">>,
      pattern |-> [trigger |-> <<"hunger", "see_food", "feeding_time">>,
                   response |-> <<"approach_food", "eat", "satisfaction">>,
                   category |-> "feeding"]],
     [name |-> <<"play_initiation">>,
      pattern |-> [trigger |-> <<"boredom", "see_toy", "energy_high">>,
                   response |-> <<"grab_toy", "playful_movement", "invite_play">>,
                   category |-> "playing"]],
     [name |-> <<"comfort_seeking">>,
      pattern |-> [trigger |-> <<"tired", "stress", "cold">>,
                   response |-> <<"find_cozy_spot", "curl_up", "relax">>,
                   category |-> "comfort"]],
     [name |-> <<"curiosity_response">>,
      pattern |-> [trigger |-> <<"novel_stimulus", "unknown_object", "strange_sound">>,
                   response |-> <<"approach_cautiously", "investigate", "assess">>,
                   category |-> "exploring"]] >>

\* the patternData initializeCoreBehaviors() crystallizes for a core behaviour
corePatternData(behavior) ==
  [name |-> behavior.name, pattern |-> behavior.pattern, strength |-> coreStrength,
   successCount |-> coreSuccessCount, category |-> behavior.pattern.category]

\* the state after initialize(): the core behaviours are crystallized
InitLoops ==
  /\ crystallizedPatterns =
       [i \in 1..Len(coreBehaviors) |-> ghostLoop(corePatternData(coreBehaviors[i]))]
  /\ activeLoops = <<>>
  /\ loopHistory = <<>>
  /\ loopStats = [totalCrystallized |-> Len(coreBehaviors), activeLoopCount |-> 0,
                  successfulTriggers |-> 0, averageStrength |-> 800,
                  calls |-> 0, triggers |-> 0, reinforcements |-> 0, sweeps |-> 0,
                  merges |-> 0]
  /\ loopSuccesses = [id \in {coreBehaviors[i].name : i \in 1..Len(coreBehaviors)} |->
                        coreSuccessCount]
  /\ loopLast = noLoopResult

----------------------------------------------------------------------------
(* WonderEngine (src/server/src/lib/lucian/wonder.js) *)

interestCategories ==
  <<"visual_patterns", "sounds", "movements", "objects", "interactions",
    "environments", "emotions", "games">>

\* the levels initializeInterests() is explored with; Math.random() gives a
\* level in [0.3, 0.7)
InterestLevels == {300, 699}

\* the symbol lists handed to explore() in the runs explored
ExploreInputs ==
  {<<[concept |-> "feed"]>>,
   <<[concept |-> "feed"], [concept |-> "red_color"]>>}

\* the prompts of generateWonderPrompt()
wonderPrompts ==
  <<"what_if_flying", "new_friend", "hidden_treasure", "strange_sound",
    "colorful_pattern", "feeling_happy">>

WonderTickSteps == {deeperDelay, wonderCooldown - deeperDelay}

\* concept.includes(keyword), for the concepts of the runs explored
Includes(concept, keyword) ==
  \/ concept = keyword
  \/ <<concept, keyword>> \in {<<"red_color", "color">>, <<"strange_sound", "sound">>,
                               <<"colorful_pattern", "color">>,
                               <<"feeling_happy", "happy">>}

\* the keywords calculateCategoryMatch looks for, per category
categoryKeywords(category) ==
  CASE category = "visual_patterns" -> {"visual", "color", "shape"}
    [] category = "sounds" -> {"audio", "sound", "voice"}
    [] category = "movements" -> {"move", "motion", "action"}
    [] category = "objects" -> {"object", "thing", "item"}
    [] category = "interactions" -> {"play", "feed", "pet"}
    [] category = "emotions" -> {"happy", "sad", "emotion"}
    [] OTHER -> {}

\* calculateCategoryMatch(symbols, category); 0/0 for an empty list is NaN,
\* which no comparison accepts, and is given as 0
calculateCategoryMatch(symbols, category) ==
  LET hits == Cardinality({i \in 1..Len(symbols) :
                 \E k \in categoryKeywords(category) : Includes(symbols[i].concept, k)})
      score == IF categoryKeywords(category) = {} THEN 100 * Len(symbols)
               ELSE 1000 * hits
  IN IF Len(symbols) = 0 THEN 0 ELSE score \div Len(symbols)

\* categorizeExploration(symbols): the first category with the best score
\* above 0, "none" for null
categorizeExploration(symbols) ==
  LET F[n \in 0..Len(interestCategories)] ==
        IF n = 0 THEN [category |-> "none", score |-> 0]
        ELSE LET best == F[n - 1]
                 score == calculateCategoryMatch(symbols, interestCategories[n])
             IN IF score > best.score
                THEN [category |-> interestCategories[n], score |-> score]
                ELSE best
  IN F[Len(interestCategories)].category

\* canWonder() accepting a call at the very end of the cooldown
canWonder_AtCooldownEnd(w, t) == t - w.lastWonderTime >= wonderCooldown

\* canWonder() at time t
canWonder(w, t) == t - w.lastWonderTime > wonderCooldown

\* addToQueue(exploration) without the shift() of a queue over its capacity
addToQueue_NoShift(w, exploration) ==
  [w EXCEPT !.explorationQueue = Append(@, exploration),
            !.stats.totalExplorations = @ + 1]

\* addToQueue(exploration)
addToQueue(w, exploration) ==
  LET queue == Append(w.explorationQueue, exploration)
  IN [w EXCEPT !.explorationQueue = IF Len(queue) > maxQueueSize
                                    THEN Tail(queue) ELSE queue,
               !.stats.totalExplorations = @ + 1]

\* boostCuriosity(amount) at time t
boostCuriosity(w, amount, t) ==
  LET level == Min(1000, w.curiosityLevel + amount)
      history == Append(w.curiosityHistory, [level |-> level, timestamp |-> t])
  IN [w EXCEPT !.curiosityLevel = level,
               !.curiosityHistory = IF Len(history) > curiosityHistoryLimit
                                    THEN Tail(history) ELSE history]

\* updateInterest(category, change) at time t
updateInterest(w, category, change, t) ==
  IF category \in DOMAIN w.interestMap
  THEN [w EXCEPT !.interestMap[category] =
          [level |-> Max(0, Min(1000, @.level + change)),
           experiences |-> @.experiences + 1,
           lastTriggered |-> t]]
  ELSE w

DiscoveryIndex(discoveries, concept) ==
  IF \E i \in 1..Len(discoveries) : discoveries[i].concept = concept
  THEN CHOOSE i \in 1..Len(discoveries) : discoveries[i].concept = concept
  ELSE 0

\* calculateEmotionalValue(symbol)
calculateEmotionalValue(symbol) ==
  LET positive == IF \E k \in {"play", "food", "joy"} : Includes(symbol.concept, k)
                  THEN 300 ELSE 0
      negative == IF \E k \in {"danger", "fear", "pain"} : Includes(symbol.concept, k)
                  THEN 300 ELSE 0
  IN Max(0, Min(1000, 500 + positive - negative + 100))

\* the forEach body with a familiarity that starts again at every encounter
discoverSymbol_Resets(w, symbol, t) ==
  LET idx == DiscoveryIndex(w.discoveries, symbol.concept)
  IN IF idx = 0
     THEN [w EXCEPT !.discoveries =
                       Append(@, [concept |-> symbol.concept, firstSeen |-> t,
                                  encounters |-> 1, familiarity |-> firstFamiliarity,
                                  associations |-> <<>>,
                                  emotionalValue |-> calculateEmotionalValue(symbol)]),
                    !.stats.discoveries = @ + 1]
     ELSE [w EXCEPT !.discoveries[idx].encounters = @ + 1,
                    !.discoveries[idx].familiarity =
                       IF @ >= 2 * familiarityGain THEN firstFamiliarity ELSE @ + familiarityGain,
                    !.curiosityLevel = Mul(@, 1000 - Mul(firstFamiliarity, 100))]

\* the body of the forEach of processExploration, for one symbol
discoverSymbol(w, symbol, t) ==
  LET idx == DiscoveryIndex(w.discoveries, symbol.concept)
  IN IF idx = 0
     THEN [w EXCEPT !.discoveries =
                       Append(@, [concept |-> symbol.concept, firstSeen |-> t,
                                  encounters |-> 1, familiarity |-> firstFamiliarity,
                                  associations |-> <<>>,
                                  emotionalValue |-> calculateEmotionalValue(symbol)]),
                    !.stats.discoveries = @ + 1]
     ELSE LET familiarity == Min(1000, w.discoveries[idx].familiarity + familiarityGain)
          IN [w EXCEPT !.discoveries[idx].encounters = @ + 1,
                       !.discoveries[idx].familiarity = familiarity,
                       !.curiosityLevel = Mul(@, 1000 - Mul(familiarity, 100))]

\* discovery.associations after `concept` has been associated to it
associate(discoveries, owner, concept) ==
  LET idx == DiscoveryIndex(discoveries, owner)
  IN IF idx = 0 \/ concept \in SeqToSet(discoveries[idx].associations)
     THEN discoveries
     ELSE [discoveries EXCEPT ![idx].associations = Append(@, concept)]

\* createAssociations(symbols): the pairs i < j in the order of the two loops
createAssociations(discoveries, symbols) ==
  LET n == Len(symbols)
      pairs == [k \in 1..(n * n) |-> <<((k - 1) \div n) + 1, ((k - 1) % n) + 1>>]
      F[k \in 0..(n * n)] ==
        IF k = 0 THEN discoveries
        ELSE LET before == F[k - 1]
                 i == pairs[k][1]
                 j == pairs[k][2]
             IN IF i < j
                THEN associate(associate(before, symbols[i].concept, symbols[j].concept),
                               symbols[j].concept, symbols[i].concept)
                ELSE before
  IN F[n * n]

\* deeperExploration(exploration) at time t: the timer it sets, if any
deeperExploration(w, exploration, t) ==
  LET lists == [i \in 1..Len(exploration.symbols) |->
                  LET idx == DiscoveryIndex(w.discoveries, exploration.symbols[i].concept)
                  IN IF idx = 0 THEN <<>> ELSE w.discoveries[idx].associations]
      associations == LET G[n \in 0..Len(lists)] ==
                            IF n = 0 THEN <<>> ELSE G[n - 1] \o lists[n]
                      IN G[Len(lists)]
      deeper == [exploration EXCEPT
                   !.depth = @ + 1,
                   !.path = Append(@, exploration.id),
                   !.symbols = [k \in 1..Len(associations) |->
                                  [concept |-> associations[k], strength |-> 700,
                                   derived |-> TRUE]]]
  IN IF Len(associations) > 0
     THEN [w EXCEPT !.pending = Append(@, [due |-> t + deeperDelay,
                                           exploration |-> deeper])]
     ELSE w

\* processExploration(exploration) without the test of the exploration depth
processExploration_NoDepthCap(w, exploration, t) ==
  LET symbols == exploration.symbols
      F[n \in 0..Len(symbols)] ==
        IF n = 0 THEN w ELSE discoverSymbol(F[n - 1], symbols[n], t)
      discovered == F[Len(symbols)]
      associated == [discovered EXCEPT
                       !.discoveries = createAssociations(@, symbols)]
  IN IF associated.curiosityLevel > deeperFloor
     THEN deeperExploration(associated, exploration, t)
     ELSE associated

\* processExploration(exploration) at time t
processExploration(w, exploration, t) ==
  LET symbols == exploration.symbols
      F[n \in 0..Len(symbols)] ==
        IF n = 0 THEN w ELSE discoverSymbol(F[n - 1], symbols[n], t)
      discovered == F[Len(symbols)]
      associated == [discovered EXCEPT
                       !.discoveries = createAssociations(@, symbols)]
  IN IF exploration.depth < explorationDepth /\ associated.curiosityLevel > deeperFloor
     THEN deeperExploration(associated, exploration, t)
     ELSE associated

\* the exploration record explore(symbols) builds at time t
newExploration(w, symbols, t) ==
  [id |-> <<"explore_", t>>, symbols |-> symbols, timestamp |-> t, depth |-> 0,
   path |-> <<>>, curiosityLevel |-> w.curiosityLevel,
   category |-> categorizeExploration(symbols)]

\* explore(symbols) at time t: the engine afterwards and the value returned
\* (<<>> for null)
explore(w, symbols, t) ==
  IF ~canWonder(w, t) THEN [engine |-> w, returned |-> <<>>]
  ELSE LET exploration == newExploration(w, symbols, t)
           queued == addToQueue(w, exploration)
           boosted == boostCuriosity(queued, curiosityBoost, t)
           interested == IF exploration.category # "none"
                         THEN updateInterest(boosted, exploration.category, interestGain, t)
                         ELSE boosted
           recorded == [interested EXCEPT !.lastWonderTime = t,
                                          !.stats.wonderMoments = @ + 1]
       IN [engine |-> processExploration(recorded, exploration, t),
           returned |-> <<exploration>>]

\* initialize(): initializeInterests() and the start of the curiosity cycle
WonderInitialize(level) ==
  /\ ~wonder.isActive
  /\ ~wonder.cycleTimer
  /\ wonder' = [wonder EXCEPT
                  !.isActive = TRUE,
                  !.cycleTimer = TRUE,
                  !.interestMap =
                     [c \in SeqToSet(interestCategories) |->
                        [level |-> level, experiences |-> 0, lastTriggered |-> 0]]]
  /\ UNCHANGED <<now, exceptWonder, wonderLast>>

Explore(symbols) ==
  LET result == explore(wonder, symbols, now)
  IN /\ wonder.isActive
     /\ wonderLast.calls < MaxExplores
     /\ wonder' = result.engine
     /\ wonderLast' = [calls |-> wonderLast.calls + 1, time |-> now,
                       returned |-> result.returned]
     /\ UNCHANGED <<now, exceptWonder>>

\* the callback of the setTimeout of deeperExploration
DeeperTimer ==
  /\ Len(wonder.pending) > 0
  /\ wonder.pending[1].due <= now
  /\ wonder' = processExploration([wonder EXCEPT !.pending = Tail(@)],
                                  wonder.pending[1].exploration, now)
  /\ UNCHANGED <<now, exceptWonder, wonderLast>>

\* the body of the 2 s timer of startCuriosityCycle up to its stagnation
\* check, at time t; `spike` is Math.random() < 0.05
sweepCuriosity(w, spike, t) ==
  LET decayed == [w EXCEPT
                    !.curiosityLevel = Max(baseCuriosity, Mul(@, curiosityDecay))]
      spiked == IF spike THEN boostCuriosity(decayed, spikeBoost, t) ELSE decayed
      total == LET G[n \in 0..Len(spiked.curiosityHistory)] ==
                     IF n = 0 THEN 0 ELSE G[n - 1] + spiked.curiosityHistory[n].level
               IN G[Len(spiked.curiosityHistory)]
  IN IF Len(spiked.curiosityHistory) > 0
     THEN [spiked EXCEPT !.stats.averageCuriosity =
                            total \div Len(spiked.curiosityHistory)]
     ELSE spiked

\* the stagnation check of the timer
stagnant(w) == w.curiosityLevel < stagnationBar /\ Len(w.explorationQueue) = 0

\* generateWonderPrompt() at time t; `prompt` is the index it draws
generateWonderPrompt(w, prompt, t) ==
  explore(w, <<[concept |-> wonderPrompts[prompt], strength |-> 1000]>>, t).engine

\* one run of the timer's callback
curiosityInterval(w, spike, prompt, t) ==
  LET swept == sweepCuriosity(w, spike, t)
  IN IF stagnant(swept) THEN generateWonderPrompt(swept, prompt, t) ELSE swept

\* The 2 s timer of startCuriosityCycle, a bounded number of times
CuriosityCycle(spike, prompt) ==
  /\ wonder.cycleTimer
  /\ wonder.cycles < MaxCuriosityCycles
  /\ stagnant(sweepCuriosity(wonder, spike, now)) \/ prompt = 1
  /\ wonder' = [curiosityInterval(wonder, spike, prompt, now) EXCEPT !.cycles = @ + 1]
  /\ UNCHANGED <<now, exceptWonder, wonderLast>>

\* The 2 s timer of startCuriosityCycle, for as long as the engine runs; the
\* spikes are explored while the curiosity history is shorter than MaxSpikes
CuriosityInterval(spike, prompt) ==
  /\ wonder.cycleTimer
  /\ spike => Len(wonder.curiosityHistory) < MaxSpikes
  /\ stagnant(sweepCuriosity(wonder, spike, now)) \/ prompt = 1
  /\ wonder' = curiosityInterval(wonder, spike, prompt, now)
  /\ UNCHANGED <<now, exceptWonder, wonderLast>>

WonderTick(d) ==
  /\ now + d <= MaxWonderNow
  /\ now' = now + d
  /\ UNCHANGED <<mpuVars, hasrVars, loopVars, wonderVars, identityVars, systemVars, sspVars, ioVars>>

\* the clock passing one cooldown and one deferral at a time
CooldownTick ==
  /\ now + wonderCooldown + deeperDelay <= MaxQueueNow
  /\ now' = now + wonderCooldown + deeperDelay
  /\ UNCHANGED <<mpuVars, hasrVars, loopVars, wonderVars, identityVars, systemVars, sspVars, ioVars>>

\* shutdown(): the flag is cleared and the listeners are removed; the handle
\* of the interval of startCuriosityCycle is not kept, and nothing clears it
WonderShutdown ==
  /\ wonder.isActive
  /\ wonder' = [wonder EXCEPT !.isActive = FALSE]
  /\ UNCHANGED <<now, exceptWonder, wonderLast>>

\* the state after the constructor; cycleTimer says that the interval of
\* startCuriosityCycle has been set, pending holds the timeouts set by
\* deeperExploration
InitWonder ==
  /\ wonder = [isActive |-> FALSE, curiosityLevel |-> initialCuriosity,
               explorationQueue |-> <<>>, discoveries |-> <<>>,
               interestMap |-> <<>>, lastWonderTime |-> 0, curiosityHistory |-> <<>>,
               stats |-> [totalExplorations |-> 0, discoveries |-> 0,
                          wonderMoments |-> 0, averageCuriosity |-> 500],
               pending |-> <<>>, cycleTimer |-> FALSE, cycles |-> 0]
  /\ wonderLast = [calls |-> 0, time |-> 0, returned |-> <<>>]

----------------------------------------------------------------------------
(* AetheronIdentity (src/server/src/lib/lucian/aetheron.js, lines 8 to 645) *)

\* A self-concept key is a tuple: 'i_exist' is <<"i_exist">> and `i_${type}`
\* is <<"i_", type>>.

fundamentalConcepts ==
  << [concept |-> <<"i_exist">>, strength |-> 1000],
     [concept |-> <<"i_feel">>, strength |-> 900],
     [concept |-> <<"i_think">>, strength |-> 800],
     [concept |-> <<"i_want">>, strength |-> 700],
     [concept |-> <<"i_am_unique">>, strength |-> 800] >>

personalityDimensions ==
  <<"openness", "conscientiousness", "extraversion", "agreeableness", "neuroticism">>

coreValues == <<"loyalty", "playfulness", "curiosity", "comfort", "affection">>

\* the importances initializeCoreIdentity() is explored with; 0.5 +
\* Math.random() * 0.3 is in [0.5, 0.8)
ValueImportances == {500, 799}

\* the experiences handed to integrate() in the runs explored
Experiences ==
  {[social |-> TRUE, positive |-> TRUE, emotion |-> "happy", novel |-> TRUE],
   [achievement |-> TRUE, learned |-> "sit", type |-> "achievement",
    content |-> "sit", importance |-> 2000],
   [play |-> TRUE]}

Names == {"Rex"}

IdentityTickSteps == {driftWindow + 1}

\* a property is truthy; the properties the explored experiences carry are
\* true, non-empty strings or non-zero numbers
Truthy(obj, key) == Has(obj, key)

\* categorizeExperience(experience)
categorizeExperience(experience) ==
  IF Truthy(experience, "social") \/ Truthy(experience, "interaction") THEN "social"
  ELSE IF Truthy(experience, "learning") \/ Truthy(experience, "discovery")
  THEN "learning"
  ELSE IF Truthy(experience, "emotion") THEN "emotional"
  ELSE IF Truthy(experience, "achievement") THEN "achievement"
  ELSE IF Truthy(experience, "play") THEN "play"
  ELSE "general"

KeyIndex(map, key) ==
  IF \E i \in 1..Len(map) : map[i].key = key
  THEN CHOOSE i \in 1..Len(map) : map[i].key = key
  ELSE 0

\* Map.set(key, value) on a Map kept as a sequence of entries
MapPut(map, key, value) ==
  IF KeyIndex(map, key) = 0 THEN Append(map, [key |-> key, value |-> value])
  ELSE [map EXCEPT ![KeyIndex(map, key)].value = value]

\* updateSelfConcept(experience, type) at time t
updateSelfConcept(id, experience, type, t) ==
  LET conceptKey == <<"i_", type>>
      present == IF KeyIndex(id.selfConcept, conceptKey) = 0
                 THEN MapPut(id.selfConcept, conceptKey,
                             [strength |-> 300, formed |-> t, reinforcements |-> 0])
                 ELSE id.selfConcept
      idx == KeyIndex(present, conceptKey)
      reinforced == [present EXCEPT
                       ![idx].value.strength = Min(1000, @ + conceptGain),
                       ![idx].value.reinforcements = @ + 1]
  IN [id EXCEPT !.selfConcept =
        IF Truthy(experience, "learned")
        THEN MapPut(reinforced, <<"i_can_", experience.learned>>,
                    [strength |-> 500, formed |-> t, reinforcements |-> 1])
        ELSE reinforced]

\* the adjustments table of adjustPersonality, in the order of its entries
personalityAdjustments(type) ==
  CASE type = "social" -> << <<"extraversion", 20>>, <<"agreeableness", 10>> >>
    [] type = "learning" -> << <<"openness", 20>>, <<"conscientiousness", 10>> >>
    [] type = "emotional" -> << <<"neuroticism", -10>> >>
    [] type = "achievement" -> << <<"conscientiousness", 20>>, <<"openness", 10>> >>
    [] type = "play" -> << <<"extraversion", 10>>, <<"openness", 10>> >>
    [] OTHER -> <<>>

\* adjustPersonality(experience, type) at time t
adjustPersonality(id, type, t) ==
  LET adjustments == personalityAdjustments(type)
      F[n \in 0..Len(adjustments)] ==
        IF n = 0 THEN id.personality
        ELSE LET before == F[n - 1]
                 dimension == adjustments[n][1]
             IN [before EXCEPT ![dimension] =
                   [value |-> Max(0, Min(1000, @.value + adjustments[n][2])),
                    stability |-> Min(1000, @.stability + stabilityGain),
                    lastUpdated |-> t]]
  IN [id EXCEPT !.personality = F[Len(adjustments)]]

\* the valueMapping table of processValues ("none" for undefined)
valueMapping(type) ==
  CASE type = "social" -> "affection"
    [] type = "learning" -> "curiosity"
    [] type = "play" -> "playfulness"
    [] type = "achievement" -> "loyalty"
    [] type = "emotional" -> "comfort"
    [] OTHER -> "none"

\* processValues(experience, type) at time t
processValues(id, type, t) ==
  LET relevantValue == valueMapping(type)
  IN [id EXCEPT !.values =
        [i \in 1..Len(id.values) |->
           IF id.values[i].key = relevantValue
           THEN [id.values[i] EXCEPT
                   !.value.actions = @ + 1,
                   !.value.lastExpressed = t,
                   !.value.importance = Min(1000, @ + valueGain)]
           ELSE [id.values[i] EXCEPT !.value.importance = Mul(@, valueDecay)]]]

\* updateRelationships(experience) at time t
updateRelationships(id, experience, t) ==
  LET entity == IF Truthy(experience, "entity") THEN experience.entity
                ELSE IF Truthy(experience, "with") THEN experience.with
                ELSE "owner"
      isNew == KeyIndex(id.relationships, entity) = 0
      present == IF isNew
                 THEN MapPut(id.relationships, entity,
                             [bond |-> 500, trust |-> 500, interactions |-> 0,
                              lastSeen |-> t, emotions |-> <<>>])
                 ELSE id.relationships
      idx == KeyIndex(present, entity)
      old == present[idx].value
      emotions == IF Truthy(experience, "emotion")
                  THEN Append(old.emotions,
                              [emotion |-> experience.emotion, timestamp |-> t])
                  ELSE old.emotions
      updated ==
        [bond |-> IF Truthy(experience, "positive") THEN Min(1000, old.bond + 20)
                  ELSE IF Truthy(experience, "negative") THEN Max(0, old.bond - 10)
                  ELSE old.bond,
         trust |-> IF Truthy(experience, "positive") THEN Min(1000, old.trust + 10)
                   ELSE IF Truthy(experience, "negative") THEN Max(0, old.trust - 20)
                   ELSE old.trust,
         interactions |-> old.interactions + 1,
         lastSeen |-> t,
         emotions |-> IF Len(emotions) > emotionsLimit THEN Tail(emotions) ELSE emotions]
  IN [id EXCEPT !.relationships = [present EXCEPT ![idx].value = updated],
                !.stats.relationshipCount = IF isNew THEN @ + 1 ELSE @]

\* isSignificant(experience)
isSignificant(experience) ==
  LET significance ==
        (IF Truthy(experience, "novel") THEN 300 ELSE 0)
        + (IF Truthy(experience, "emotion") /\ experience.emotion # "neutral"
           THEN 200 ELSE 0)
        + (IF Truthy(experience, "social") THEN 200 ELSE 0)
        + (IF Truthy(experience, "achievement") THEN 400 ELSE 0)
        + (IF Truthy(experience, "learned") THEN 300 ELSE 0)
  IN significance > significanceBar

\* the sort key of addToNarrative: importance || 0.5
NarrativeImportance(entry) ==
  IF Has(entry, "importance") /\ entry.importance # 0 THEN entry.importance
  ELSE defaultNarrativeImportance

\* addToNarrative(item) at time t
addToNarrative(id, item, t) ==
  LET narrative == Append(id.selfNarrative,
                          Spread(item, [timestamp |-> t, integrated |-> FALSE]))
  IN [id EXCEPT !.selfNarrative =
        IF Len(narrative) > narrativeMaxLength
        THEN FirstN(SortDesc(narrative, NarrativeImportance), narrativeMaxLength)
        ELSE narrative]

\* calculateNarrativeCoherence()
calculateNarrativeCoherence(id) ==
  LET narrative == id.selfNarrative
      Theme(i) == IF Has(narrative[i], "type") THEN narrative[i].type ELSE "general"
      Count(i) == Cardinality({j \in 1..Len(narrative) : Theme(j) = Theme(i)})
      maxTheme == CHOOSE m \in {Count(i) : i \in 1..Len(narrative)} :
                    \A i \in 1..Len(narrative) : Count(i) <= m
  IN IF Len(narrative) < 2 THEN 500 ELSE (maxTheme * 1000) \div Len(narrative)

\* the sum of the numbers of a sequence
SumSeq(s) ==
  LET G[n \in 0..Len(s)] == IF n = 0 THEN 0 ELSE G[n - 1] + s[n]
  IN G[Len(s)]

\* updateCoherence() adding the self-concept strengths up without averaging
updateCoherence_NoAverage(id) ==
  [id EXCEPT !.stats.coherence =
     Mul(SumSeq([i \in 1..Len(id.selfConcept) |-> id.selfConcept[i].value.strength]), 300)
     + Mul(SumSeq([i \in 1..Len(personalityDimensions) |->
                     id.personality[personalityDimensions[i]].stability])
             \div Len(personalityDimensions), 300)
     + Mul(SumSeq([i \in 1..Len(id.values) |-> id.values[i].value.importance])
             \div Len(id.values), 200)
     + Mul(calculateNarrativeCoherence(id), 200)]

\* updateCoherence()
updateCoherence(id) ==
  [id EXCEPT !.stats.coherence =
     Mul(SumSeq([i \in 1..Len(id.selfConcept) |-> id.selfConcept[i].value.strength])
           \div Len(id.selfConcept), 300)
     + Mul(SumSeq([i \in 1..Len(personalityDimensions) |->
                     id.personality[personalityDimensions[i]].stability])
             \div Len(personalityDimensions), 300)
     + Mul(SumSeq([i \in 1..Len(id.values) |-> id.values[i].value.importance])
             \div Len(id.values), 200)
     + Mul(calculateNarrativeCoherence(id), 200)]

\* integrate(experience) at time t
integrate(id, experience, t) ==
  LET experienceType == categorizeExperience(experience)
      concept == updateSelfConcept(id, experience, experienceType, t)
      adjusted == adjustPersonality(concept, experienceType, t)
      valued == processValues(adjusted, experienceType, t)
      related == IF experienceType = "social"
                 THEN updateRelationships(valued, experience, t) ELSE valued
      narrated == IF isSignificant(experience)
                  THEN addToNarrative(related, experience, t) ELSE related
  IN updateCoherence(narrated)

\* initialize(): initializeCoreIdentity() and the start of self-reflection
IdentityInitialize(importance) ==
  /\ ~identity.isActive
  /\ identity' =
       [identity EXCEPT
          !.isActive = TRUE,
          !.selfConcept =
             [i \in 1..Len(fundamentalConcepts) |->
                [key |-> fundamentalConcepts[i].concept,
                 value |-> [strength |-> fundamentalConcepts[i].strength,
                            formed |-> now, reinforcements |-> 0]]],
          !.personality =
             [d \in SeqToSet(personalityDimensions) |->
                [value |-> 500, stability |-> initialStability, lastUpdated |-> now]],
          !.values =
             [i \in 1..Len(coreValues) |->
                [key |-> coreValues[i],
                 value |-> [importance |-> importance, actions |-> 0,
                            lastExpressed |-> 0]]]]
  /\ identityLast' = "initialize"
  /\ UNCHANGED <<now, exceptIdentity>>

Integrate(experience) ==
  /\ identity.isActive
  /\ identity.calls.integrate < MaxIntegrate
  /\ identity' = [integrate(identity, experience, now) EXCEPT !.calls.integrate = @ + 1]
  /\ identityLast' = "integrate"
  /\ UNCHANGED <<now, exceptIdentity>>

\* setName(name)
SetName(name) ==
  /\ identity.isActive
  /\ identity.calls.setName < MaxSetName
  /\ identity' =
       [addToNarrative(
          [identity EXCEPT
             !.name = name,
             !.selfConcept = MapPut(@, <<"my_name">>,
                                    [strength |-> 1000, formed |-> now,
                                     reinforcements |-> 1, content |-> name])],
          [type |-> "naming", content |-> <<"I am ", name>>, importance |-> 1000], now)
        EXCEPT !.calls.setName = @ + 1]
  /\ identityLast' = "setName"
  /\ UNCHANGED <<now, exceptIdentity>>

\* integrateNarrative()
integrateNarrative(id) ==
  LET narrative == id.selfNarrative
      F[n \in 0..Len(narrative)] ==
        IF n = 0 THEN id.selfConcept
        ELSE LET before == F[n - 1]
                 entry == narrative[n]
                 achieved ==
                   IF ~entry.integrated /\ Has(entry, "type") /\ entry.type = "achievement"
                   THEN MapPut(before, <<"i_achieved_", entry.content>>,
                               [strength |-> 700, formed |-> entry.timestamp,
                                reinforcements |-> 1])
                   ELSE before
             IN IF ~entry.integrated /\ Has(entry, "type") /\ entry.type = "learning"
                THEN MapPut(achieved, <<"i_learned_", entry.content>>,
                            [strength |-> 600, formed |-> entry.timestamp,
                             reinforcements |-> 1])
                ELSE achieved
  IN [id EXCEPT !.selfConcept = F[Len(narrative)],
                !.selfNarrative = [n \in 1..Len(narrative) |->
                                     [narrative[n] EXCEPT !.integrated = TRUE]]]

\* evaluatePersonality() with the baseline term 0.5 * 0.01 of the drift left out
evaluatePersonality_NoBaseline(id, t) ==
  [id EXCEPT !.personality =
     [d \in DOMAIN id.personality |->
        [id.personality[d] EXCEPT
           !.stability = IF @ < 1000 THEN Min(1000, @ + reflectionStabilityGain) ELSE @,
           !.value = IF t - id.personality[d].lastUpdated > driftWindow
                     THEN Mul(@, 990) ELSE @]]]

\* evaluatePersonality() at time t
evaluatePersonality(id, t) ==
  [id EXCEPT !.personality =
     [d \in DOMAIN id.personality |->
        [id.personality[d] EXCEPT
           !.stability = IF @ < 1000 THEN Min(1000, @ + reflectionStabilityGain) ELSE @,
           !.value = IF t - id.personality[d].lastUpdated > driftWindow
                     THEN Mul(@, 990) + 5 ELSE @]]]

ValueImportanceOf(entry) == entry.value.importance

\* reassessValues() at time t
reassessValues(id, t) ==
  LET top == FirstN(SortDesc(id.values, ValueImportanceOf), 3)
      F[n \in 0..Len(top)] ==
        IF n = 0 THEN id.selfConcept
        ELSE LET before == F[n - 1]
                 key == <<"i_value_", top[n].key>>
             IN IF KeyIndex(before, key) = 0
                THEN MapPut(before, key,
                            [strength |-> top[n].value.importance, formed |-> t,
                             reinforcements |-> top[n].value.actions])
                ELSE before
  IN [id EXCEPT !.selfConcept = F[Len(top)]]

\* updateSelfAwareness()
updateSelfAwareness(id) ==
  [id EXCEPT !.stats.selfAwareness =
     (IF id.name # "" THEN 100 ELSE 0)
     + Min(300, Len(id.selfConcept) * 10)
     + Min(200, Len(id.selfNarrative) * 2)
     + Min(200, Len(id.relationships) * 50)
     + Min(200, id.stats.selfReflections)]

\* reflect(), the callback of the self-reflection timer
Reflect ==
  /\ identity.isActive
  /\ identity.stats.selfReflections < MaxReflect
  /\ identity' =
       updateSelfAwareness(
         reassessValues(
           evaluatePersonality(
             integrateNarrative(
               [identity EXCEPT !.stats.selfReflections = @ + 1]), now), now))
  /\ identityLast' = "reflect"
  /\ UNCHANGED <<now, exceptIdentity>>

IdentityTick(d) ==
  /\ now + d <= MaxIdentityNow
  /\ now' = now + d
  /\ UNCHANGED <<mpuVars, hasrVars, loopVars, wonderVars, identityVars, systemVars, sspVars, ioVars>>

\* the state after the constructor; the name null is ""
InitIdentity ==
  /\ identity = [isActive |-> FALSE, name |-> "", selfConcept |-> <<>>,
                 personality |-> <<>>, values |-> <<>>, relationships |-> <<>>,
                 selfNarrative |-> <<>>,
                 stats |-> [coherence |-> initialCoherence, selfAwareness |-> 500,
                            identityStrength |-> 800, relationshipCount |-> 0,
                            selfReflections |-> 0],
                 calls |-> [integrate |-> 0, setName |-> 0]]
  /\ identityLast = "none"

----------------------------------------------------------------------------
(* SSPComponent (src/server/src/lib/lucian/aetheron.js, from line 1249) *)

\* A structured input is the sequence of its Object.entries(), each entry a
\* tuple <<key, value>>; the concept `${key}_${value}` of an entry is the
\* entry itself, and a base symbol 'self' is <<"self">>.  A binding key
\* `${a}_${b}` is the tuple <<a, b>> of the two concepts.  The random vectors
\* of the symbol space are read by no binding and are left out.

bindingGain == 100
bindingDecay == 990
bindingFloor == 10
maxBufferSize == 100

baseSymbols ==
  << <<"self">>, <<"other">>, <<"food">>, <<"play">>, <<"rest">>, <<"danger">>,
     <<"comfort">>, <<"curiosity">>, <<"affection">>, <<"movement">>,
     <<"sound">>, <<"light">>, <<"touch">>, <<"warmth">>, <<"cold">> >>

\* the structured inputs handed to process() in the runs explored: the same
\* two entries in both orders, and an input of three entries
SspInputs ==
  { << <<"action", "feed">>, <<"place", "kitchen">> >>,
    << <<"place", "kitchen">>, <<"action", "feed">> >>,
    << <<"action", "feed">>, <<"place", "kitchen">>, <<"mood", "happy">> >> }

\* the binding Map after one pass of the inner loop of createBindings
strengthenBinding(bindings, bindingKey) ==
  IF \E i \in 1..Len(bindings) : bindings[i].key = bindingKey
  THEN [i \in 1..Len(bindings) |->
          IF bindings[i].key = bindingKey
          THEN [bindings[i] EXCEPT !.value = Min(1000, @ + bindingGain)]
          ELSE bindings[i]]
  ELSE Append(bindings, [key |-> bindingKey, value |-> Min(1000, bindingGain)])

\* createBindings(symbols): the pairs i < j in the order of the two loops
createBindings(bindings, concepts) ==
  LET n == Len(concepts)
      pairs == [k \in 1..(n * n) |-> <<((k - 1) \div n) + 1, ((k - 1) % n) + 1>>]
      F[k \in 0..(n * n)] ==
        IF k = 0 THEN bindings
        ELSE LET before == F[k - 1]
             IN IF pairs[k][1] < pairs[k][2]
                THEN strengthenBinding(before,
                       <<concepts[pairs[k][1]], concepts[pairs[k][2]]>>)
                ELSE before
  IN F[n * n]

\* the component after process(data) for a structured input: processStructured
\* and updateActivity
processStructured(s, data) ==
  LET Unknown(concept) == \A i \in 1..Len(s.symbolSpace) : s.symbolSpace[i] # concept
      created == FilterSeq(data, Unknown)
      bindings == createBindings(s.bindingStrength, data)
      buffer == Append(s.activityBuffer, Len(data))
  IN [s EXCEPT !.symbolSpace = @ \o created,
               !.symbolCounter = @ + Len(created),
               !.bindingStrength = bindings,
               !.bindingCounter = @ + Len(bindings) - Len(s.bindingStrength),
               !.recentActivity = Len(data),
               !.activityBuffer = IF Len(buffer) > maxBufferSize
                                  THEN Tail(buffer) ELSE buffer]

\* process(input) for a structured input
SspProcess(data) ==
  /\ ssp.calls < MaxSspCalls
  /\ ssp' = [processStructured(ssp, data) EXCEPT !.calls = @ + 1]
  /\ UNCHANGED <<now, exceptSsp>>

\* The 1 s timer of startDecayProcess: every binding is multiplied by
\* decayRate and removed when the product is below 0.01
BindingDecay ==
  LET decayed == [i \in 1..Len(ssp.bindingStrength) |->
                    [ssp.bindingStrength[i] EXCEPT !.value = Mul(@, bindingDecay)]]
      Kept(binding) == ~(binding.value < bindingFloor)
      kept == FilterSeq(decayed, Kept)
  IN /\ ssp.sweeps < MaxSspSweeps
     /\ ssp' = [ssp EXCEPT !.bindingStrength = kept,
                           !.bindingCounter = @ - (Len(decayed) - Len(kept)),
                           !.sweeps = @ + 1]
     /\ UNCHANGED <<now, exceptSsp>>

\* the state after initialize(): the base symbols, and the decay timer started
InitSSP ==
  ssp = [isActive |-> TRUE, symbolSpace |-> baseSymbols, bindingStrength |-> <<>>,
         recentActivity |-> 0, symbolCounter |-> Len(baseSymbols),
         bindingCounter |-> 0, activityBuffer |-> <<>>, calls |-> 0, sweeps |-> 0]

----------------------------------------------------------------------------
(* LucianCognitiveSystem: the components wired together, and the handlers  *)
(* of routes/cognition.js that drive them                                  *)

\* the strength bar of consolidateMemories() in the cognition tick
crystallizeBar == 700
\* the count consolidateMemories() passes to getRecentMemories
consolidationWindow == 10

\* The bodies posted to /process in the runs explored, as Object.entries
ProcessInputs == { << <<"action", "feed">> >> }

\* The limits asked of GET /memories
RecentLimits == {1, 10}

\* The records stored in the episodic partition in the runs of the system
SystemMemoryInputs ==
  {memory \in MemoryInputs :
     /\ MemType(memory) = "episodic"
     /\ Has(memory, "importance") => memory.importance = 100}

\* SSPComponent.process(input) for a structured input: one symbol object per
\* entry.  A symbol is a fresh object on every call: `ref` stands for its
\* identity, which is what a Set of features compares.  Its random vector is
\* read by nothing in the pipeline and is left out.
sspProcess(input, ref) ==
  [k \in 1..Len(input) |-> <<"symbol", input[k], <<"ref", ref, k>>>>]

\* getRecentMemories(count)
getRecentMemories(count) == Reverse(LastN(episodicMemory, count))

\* HASRComponent.consolidate(memories): the consolidated pattern.  0 / 0 is
\* NaN, kept as a missing strength.
hasrConsolidate(memories) ==
  LET F[n \in 0..Len(memories)] ==
        IF n = 0 THEN <<>>
        ELSE LET before == F[n - 1]
                 found == IF Has(memories[n], "content")
                          THEN hasrExtractFeatures(memories[n]) ELSE <<>>
                 New(f) == \A i \in 1..Len(before) : before[i] # f
             IN before \o FilterSeq(found, New)
      total == SumSeq([i \in 1..Len(memories) |->
                 IF Has(memories[i], "importance") /\ memories[i].importance # 0
                 THEN memories[i].importance ELSE 500])
  IN IF Len(memories) = 0 THEN [features |-> <<>>, confidence |-> 0]
     ELSE [features |-> F[Len(memories)], confidence |-> 0,
           strength |-> total \div Len(memories)]

\* crystallizePattern(patternData) raises a TypeError before it stores
\* anything: generateResonanceSignature(patternData.pattern) reads
\* pattern.trigger, and patternData.pattern is undefined
crystallizeRaises(patternData) == ~Has(patternData, "pattern")

\* POST /process.  ssp.process emits 'symbols_generated', whose listener
\* stores a 'symbolic' memory; the handler stores an 'input' memory, hands
\* the symbols to processPattern and the result to integrate.  In
\* updateHierarchy, abstractPattern calls f.includes(':') on every feature
\* Math.random() keeps: a symbol object has no such method, so the call
\* raises unless every feature was dropped; the handler then answers 500 and
\* integrate is not reached.  The 'pattern_learned' listener reads
\* pattern.success_rate, which the event does not carry, and does nothing.
\* the handler up to `await lucianSystem.mpu.storeMemory(...)`: the symbols
\* are encoded, the listener stores its 'symbolic' memory and the handler its
\* 'input' memory, `extra` being the context of the request body
encodeAndStore(input, extra) ==
  LET symbols == sspProcess(input, nextMemId)
      symbolic == enhanceMemory([type |-> "symbolic", content |-> symbols])
      stored == [enhanceMemory(Spread([type |-> "input", content |-> symbols], extra))
                   EXCEPT !.id = nextMemId + 1]
  IN /\ memoryStore' = storeGeneralMemory(symbolic) \o <<stored>>
     /\ mpuStats' = [mpuStats EXCEPT !.totalMemories = @ + 2]
     /\ nextMemId' = nextMemId + 2
     /\ mpuLast' = [op |-> "store", n |-> mpuLast.n + 2, id |-> stored.id,
                    evicted |-> FALSE, ids |-> <<>>]
     /\ ssp' = processStructured(ssp, input)

\* the handler after the await: processPattern, integrate and the answer
learnAndIntegrate(symbols, ids) ==
  /\ learnPattern([kind |-> "array", items |-> symbols])
  /\ \E keep \in SUBSET (1..Len(symbols)) :
       LET raised == keep # {}
       IN /\ hierarchies' =
               IF raised THEN hierarchies
               ELSE updateHierarchy([l \in 1..(hierarchyDepth - 1) |-> <<>>])
          /\ identity' =
               IF raised THEN identity
               ELSE integrate(identity, [symbols |-> symbols, learning |-> TRUE], now)
          /\ identityLast' = IF raised THEN identityLast ELSE "integrate"
          /\ system' = [calls |-> [system.calls EXCEPT !.process = @ + 1],
                        last |-> [op |-> "process", raised |-> raised,
                                  handed |-> FALSE, ids |-> ids]]

\* A request without context: its 'input' memory has importance 0.5, nothing
\* is persisted, and the handler runs to its answer before any other event
PostProcess(input) ==
  /\ identity.isActive
  /\ system.calls.process < MaxProcess
  /\ encodeAndStore(input, <<>>)
  /\ learnAndIntegrate(sspProcess(input, nextMemId), <<nextMemId, nextMemId + 1>>)
  /\ UNCHANGED <<now, episodicMemory, semanticMemory, proceduralMemory,
                 loopVars, wonderVars, ioVars>>

\* the context of the requests that are persisted: calculateImportance adds
\* 0.2 for a context that includes 'owner'
OwnerContext == [context |-> {"owner"}]

\* A request with a context that includes 'owner' arrives: the handler runs
\* up to the readFile of persistMemory, where it waits
ProcessSubmit(input) ==
  /\ identity.isActive
  /\ Len(inflight) < MaxSubmits
  /\ encodeAndStore(input, OwnerContext)
  /\ inflight' =
       Append(inflight,
              [storeCall([enhanceMemory(
                            Spread([type |-> "input",
                                    content |-> sspProcess(input, nextMemId)],
                                   OwnerContext))
                            EXCEPT !.id = nextMemId + 1], "read")
                 EXCEPT !.call = "process"])
  /\ UNCHANGED <<now, episodicMemory, semanticMemory, proceduralMemory, hasrVars,
                 loopVars, wonderVars, identityVars, systemVars, files>>

\* storeMemory has returned to the handler of the request at place i of
\* `inflight`, which runs to its answer
ProcessResume(i) ==
  /\ i \in 1..Len(inflight)
  /\ inflight[i].call = "process"
  /\ inflight[i].at = "returned"
  /\ learnAndIntegrate(inflight[i].memory.content,
                       <<inflight[i].memory.id - 1, inflight[i].memory.id>>)
  /\ inflight' = [inflight EXCEPT ![i].at = "answered"]
  /\ UNCHANGED <<now, mpuVars, loopVars, wonderVars, sspVars, files>>

\* retrieveMemory(query) on the assembled system: the 'memory_retrieved'
\* listener hands the first result to processPattern
SystemRetrieveMemory(query) ==
  LET results == retrieveResults(query).results
      memory == [kind |-> "object", obj |-> results[1]]
  IN /\ system.calls.memories < MaxMemoryQueries
     /\ retrieveMemory(query)
     /\ IF Len(results) > 0
        THEN /\ learnPattern(memory)
             /\ \E chain \in abstractionChains(preprocessInput(memory).features, 0) :
                  hierarchies' = updateHierarchy(chain)
        ELSE UNCHANGED hasrVars
     /\ system' = [calls |-> [system.calls EXCEPT !.memories = @ + 1],
                   last |-> [op |-> "retrieve", raised |-> FALSE, handed |-> FALSE,
                             ids |-> mpuLast'.ids]]
     /\ UNCHANGED <<now, loopVars, wonderVars, identityVars, sspVars, ioVars>>

\* GET /memories without a query: getRecentMemories(limit)
RecentMemories(limit) ==
  LET memories == getRecentMemories(limit)
  IN /\ system.calls.memories < MaxMemoryQueries
     /\ system' = [calls |-> [system.calls EXCEPT !.memories = @ + 1],
                   last |-> [op |-> "recent", raised |-> FALSE, handed |-> FALSE,
                             ids |-> [i \in 1..Len(memories) |-> memories[i].id]]]
     /\ UNCHANGED <<now, mpuVars, hasrVars, loopVars, wonderVars, identityVars, sspVars, ioVars>>

\* consolidateMemories() of the cognition tick; `chance` is Math.random() <
\* 0.01.  The rest of the tick writes cognitiveState only.
SystemConsolidate(chance) ==
  LET memories == getRecentMemories(consolidationWindow)
      consolidated == hasrConsolidate(memories)
      pattern == [kind |-> "object", obj |-> consolidated]
      learns == chance /\ Len(consolidated.features) > 0
      handed == /\ chance
                /\ Has(consolidated, "strength")
                /\ consolidated.strength > crystallizeBar
      raised == handed /\ crystallizeRaises(consolidated)
  IN /\ system.calls.consolidate < MaxConsolidate
     /\ IF learns
        THEN /\ learnPattern(pattern)
             /\ \E chain \in abstractionChains(preprocessInput(pattern).features, 0) :
                  hierarchies' = updateHierarchy(chain)
        ELSE UNCHANGED hasrVars
     /\ IF handed /\ ~raised
        THEN /\ crystallizedPatterns' = crystallizePattern(crystallizedPatterns, consolidated)
             /\ loopStats' = [loopStats EXCEPT !.totalCrystallized = @ + 1]
             /\ UNCHANGED <<activeLoops, loopHistory, loopSuccesses, loopLast>>
        ELSE UNCHANGED loopVars
     /\ system' = [calls |-> [system.calls EXCEPT !.consolidate = @ + 1],
                   last |-> [op |-> "consolidate", raised |-> raised,
                             handed |-> handed, ids |-> <<>>]]
     /\ UNCHANGED <<now, mpuVars, wonderVars, identityVars, sspVars, ioVars>>

\* the state after the constructor of LucianCognitiveSystem
InitSystem ==
  system = [calls |-> [process |-> 0, memories |-> 0, consolidate |-> 0],
            last |-> [op |-> "none", raised |-> FALSE, handed |-> FALSE,
                      ids |-> <<>>]]

----------------------------------------------------------------------------
(* Specifications *)

Init ==
  /\ now = StartTime
  /\ InitMPU
  /\ InitHASR
  /\ InitLoops
  /\ InitWonder
  /\ InitIdentity
  /\ InitSystem
  /\ InitSSP
  /\ InitIO

NextMem ==
  \/ \E memory \in MemoryInputs : StoreMemory(memory)
  \/ \E query \in Queries : RetrieveMemory(query)
  \/ ConsolidationTimer
  \/ \E d \in MemTickSteps : MemTick(d)

SpecMem == Init /\ [][NextMem]_vars

\* The runs in which the memory store is shut down and a new one is
\* initialized on the directory it left
CheckpointInputs ==
  {memory \in MemoryInputs :
     /\ MemType(memory) \in {"episodic", "semantic"}
     /\ Has(memory, "importance") => memory.importance = 100}

NextCheckpoint ==
  \/ \E memory \in CheckpointInputs : StoreMemory(memory)
  \/ \E written \in 0..2 : MpuShutdown(written)
  \/ MpuInitialize

SpecCheckpoint == Init /\ [][NextCheckpoint]_vars

\* The runs in which storeMemory calls overlap: a call started while another
\* waits for a file operation
PersistInputs ==
  {memory \in MemoryInputs :
     /\ MemType(memory) = "episodic"
     /\ Has(memory, "importance") => memory.importance \in {100, 1500}}

NextPersist ==
  \/ \E memory \in PersistInputs : StoreMemoryCall(memory)
  \/ \E i \in 1..MaxStores, ok \in BOOLEAN : PersistRead(i, ok)
  \/ \E i \in 1..MaxStores, ok \in BOOLEAN : PersistWrite(i, ok)

SpecPersist == Init /\ [][NextPersist]_vars

\* The runs in which every stored memory is of kind 'episodic'
EpisodicInputs == {memory \in MemoryInputs : MemType(memory) = "episodic"}

NextEpisodic ==
  \/ \E memory \in EpisodicInputs : StoreMemory(memory)
  \/ \E query \in Queries : RetrieveMemory(query)
  \/ ConsolidationTimer
  \/ \E d \in MemTickSteps : MemTick(d)

SpecEpisodic == Init /\ [][NextEpisodic]_vars

\* The runs in which the queries also reach the semantic records that
\* consolidateMemories() writes
RetrievalInputs ==
  {memory \in MemoryInputs :
     /\ MemType(memory) \in {"episodic", "semantic"}
     /\ Has(memory, "importance") => memory.importance = 100}

RetrievalQueries == Queries \cup { [type |-> "semantic"] }

NextRetrieval ==
  \/ \E memory \in RetrievalInputs : StoreMemory(memory)
  \/ \E query \in RetrievalQueries : RetrieveMemory(query)
  \/ ConsolidationTimer
  \/ \E d \in MemTickSteps : MemTick(d)

SpecRetrieval == Init /\ [][NextRetrieval]_vars

NextPat ==
  \/ \E input \in PatternInputs : ProcessPattern(input)
  \/ ResonanceMonitor

SpecPat == Init /\ [][NextPat]_vars

\* The runs in which learned patterns are connected to base patterns
NextConnected ==
  \/ \E input \in ConnectedInputs : ProcessPattern(input)
  \/ ResonanceMonitor

SpecConnected == Init /\ [][NextConnected]_vars

NextLoop ==
  \/ \E patternData \in CrystallizeInputs : CrystallizePattern(patternData)
  \/ \E input \in ResonanceInputs : CheckResonance(input)
  \/ \E loopId \in LoopIds : TriggerLoop(loopId)
  \/ \E loopId \in LoopIds, success \in BOOLEAN : ReinforceLoop(loopId, success)
  \/ LoopMonitor
  \/ \E d \in LoopTickSteps : LoopTick(d)

SpecLoop == Init /\ [][NextLoop]_vars

\* The runs in which a loop is crystallized from data that names a strength
\* below the floor of reinforceLoop, the strength a decaying loop passes
\* through on its way to removal
WeakLoopInputs ==
  {[name |-> <<"feed">>, pattern |-> FeedPattern],
   [name |-> <<"feed">>, pattern |-> FeedPattern, strength |-> weakenedFloor \div 2]}

NextReinforce ==
  \/ \E patternData \in WeakLoopInputs : CrystallizePattern(patternData)
  \/ \E loopId \in LoopIds : TriggerLoop(loopId)
  \/ \E loopId \in LoopIds, success \in BOOLEAN : ReinforceLoop(loopId, success)
  \/ LoopMonitor
  \/ \E d \in LoopTickSteps : LoopTick(d)

SpecReinforce == Init /\ [][NextReinforce]_vars

\* The runs with merges; the only loop crystallized from outside is `feed`
MergeInputs == {patternData \in CrystallizeInputs : patternData.name = <<"feed">>}

NextMerge ==
  \/ \E patternData \in MergeInputs : CrystallizePattern(patternData)
  \/ \E loopId \in LoopIds : TriggerLoop(loopId)
  \/ \E loopId \in LoopIds, success \in BOOLEAN : ReinforceLoop(loopId, success)
  \/ \E pattern1Id \in LoopIds, pattern2Id \in LoopIds :
       MergePatterns(pattern1Id, pattern2Id)
  \/ LoopMonitor
  \/ \E d \in LoopTickSteps : LoopTick(d)

SpecMerge == Init /\ [][NextMerge]_vars

\* The runs in which the active set fills up: three loops of the store are
\* triggered, two of them innate, in any order with merges and sweeps
EvictionIds == {<<"feed">>, <<"hunger_response">>, <<"play_initiation">>}

NextEviction ==
  \/ \E patternData \in MergeInputs : CrystallizePattern(patternData)
  \/ \E loopId \in EvictionIds : TriggerLoop(loopId)
  \/ \E pattern1Id \in EvictionIds, pattern2Id \in EvictionIds :
       MergePatterns(pattern1Id, pattern2Id)
  \/ LoopMonitor
  \/ \E d \in LoopTickSteps : LoopTick(d)

SpecEviction == Init /\ [][NextEviction]_vars

NextWonder ==
  \/ \E level \in InterestLevels : WonderInitialize(level)
  \/ \E symbols \in ExploreInputs : Explore(symbols)
  \/ DeeperTimer
  \/ \E spike \in BOOLEAN, prompt \in 1..Len(wonderPrompts) : CuriosityCycle(spike, prompt)
  \/ \E d \in WonderTickSteps : WonderTick(d)

SpecWonder == Init /\ [][NextWonder]_vars

\* The runs in which the engine is shut down
NextShutdown ==
  \/ \E level \in InterestLevels : WonderInitialize(level)
  \/ \E symbols \in ExploreInputs : Explore(symbols)
  \/ DeeperTimer
  \/ \E spike \in BOOLEAN, prompt \in 1..Len(wonderPrompts) : CuriosityCycle(spike, prompt)
  \/ WonderShutdown
  \/ \E d \in WonderTickSteps : WonderTick(d)

SpecShutdown == Init /\ [][NextShutdown]_vars

\* The runs that fill the exploration queue
NextQueue ==
  \/ \E level \in InterestLevels : WonderInitialize(level)
  \/ \E symbols \in ExploreInputs : Explore(symbols)
  \/ DeeperTimer
  \/ \E spike \in BOOLEAN, prompt \in 1..Len(wonderPrompts) : CuriosityCycle(spike, prompt)
  \/ CooldownTick

SpecQueue == Init /\ [][NextQueue]_vars

\* The runs of the symbol encoder and its binding decay
NextBindings ==
  \/ \E data \in SspInputs : SspProcess(data)
  \/ BindingDecay

SpecBindings == Init /\ [][NextBindings]_vars

\* The engine left without input: nothing calls explore(), and the 2 s
\* interval timer keeps firing
NextIdle ==
  \/ \E level \in InterestLevels : WonderInitialize(level)
  \/ \E spike \in BOOLEAN, prompt \in 1..Len(wonderPrompts) :
       CuriosityInterval(spike, prompt)
  \/ \E d \in WonderTickSteps : WonderTick(d)

IdleTimer ==
  \E spike \in BOOLEAN, prompt \in 1..Len(wonderPrompts) :
    CuriosityInterval(spike, prompt)

SpecIdle == Init /\ [][NextIdle]_vars /\ WF_vars(IdleTimer)

NextIdentity ==
  \/ \E importance \in ValueImportances : IdentityInitialize(importance)
  \/ \E experience \in Experiences : Integrate(experience)
  \/ \E name \in Names : SetName(name)
  \/ Reflect
  \/ \E d \in IdentityTickSteps : IdentityTick(d)

SpecIdentity == Init /\ [][NextIdentity]_vars

\* The assembled system: records reach the episodic partition through
\* storeMemory calls on the memory store (or the checkpoint read at startup)
NextSystem ==
  \/ \E importance \in ValueImportances : IdentityInitialize(importance)
  \/ \E memory \in SystemMemoryInputs : StoreMemory(memory)
  \/ \E input \in ProcessInputs : PostProcess(input)
  \/ \E query \in Queries : SystemRetrieveMemory(query)
  \/ \E limit \in RecentLimits : RecentMemories(limit)
  \/ \E chance \in BOOLEAN : SystemConsolidate(chance)

SpecSystem == Init /\ [][NextSystem]_vars

\* The runs in which POST /process requests arrive while earlier ones wait
\* for the persistence of their record
NextSubmissions ==
  \/ \E importance \in ValueImportances : IdentityInitialize(importance)
  \/ \E input \in ProcessInputs : ProcessSubmit(input)
  \/ \E i \in 1..MaxSubmits, ok \in BOOLEAN : PersistRead(i, ok)
  \/ \E i \in 1..MaxSubmits, ok \in BOOLEAN : PersistWrite(i, ok)
  \/ \E i \in 1..MaxSubmits : ProcessResume(i)

SpecSubmissions == Init /\ [][NextSubmissions]_vars

----------------------------------------------------------------------------
(* Properties *)

\* every record the memory store holds, in any partition
HeldRecords ==
  {episodicMemory[i] : i \in 1..Len(episodicMemory)}
  \cup {semanticMemory[i].value : i \in 1..Len(semanticMemory)}
  \cup UNION {{proceduralMemory[i].value[k] : k \in 1..Len(proceduralMemory[i].value)} :
                i \in 1..Len(proceduralMemory)}
  \cup {memoryStore[i] : i \in 1..Len(memoryStore)}

MemSweepStep == mpuLast'.op = "sweep" /\ mpuLast'.n # mpuLast.n

\* C1: at the end of every storeMemory call the episodic partition holds at
\* most maxEpisodic records; a store that goes over the cap completes, by
\* evicting records.
C1_EpisodicCap ==
  mpuLast.op = "store" => Len(episodicMemory) <= maxEpisodic

\* a store that found the partition full has completed by evicting
C1_Witness ==
  /\ mpuLast.op = "store"
  /\ mpuLast.evicted
  /\ Len(episodicMemory) = maxEpisodic

\* C2: every record held by the memory store has importance within [0,1]
\* after every storeMemory call and every forgetting sweep, also when the
\* input record carries its own importance.
C2_ImportanceInUnitRange ==
  \A m \in HeldRecords :
    Has(m, "importance") => (0 <= m.importance /\ m.importance <= 1000)

PatternSweepStep == hasrStats'.sweeps # hasrStats.sweeps

\* a forgetting sweep leaves every surviving record with an importance less
\* than or equal to the one it had before the sweep
ForgettingNeverRaises ==
  \A i \in 1..Len(episodicMemory) : \A j \in 1..Len(episodicMemory') :
    episodicMemory'[j].id = episodicMemory[i].id
      => episodicMemory'[j].importance <= episodicMemory[i].importance

\* a pattern decay sweep leaves every surviving pattern with a strength less
\* than or equal to the one it had before the sweep
PatternDecayNeverRaises ==
  \A i \in 1..Len(patterns) : \A j \in 1..Len(patterns') :
    patterns'[j].name = patterns[i].name
      => patterns'[j].strength <= patterns[i].strength

LoopSweepStep == loopStats'.sweeps # loopStats.sweeps

\* a loop monitoring sweep leaves every surviving loop with a strength less
\* than or equal to the one it had before the sweep
LoopDecayNeverRaises ==
  \A i \in 1..Len(crystallizedPatterns) : \A j \in 1..Len(crystallizedPatterns') :
    crystallizedPatterns'[j].id = crystallizedPatterns[i].id
      => crystallizedPatterns'[j].strength <= crystallizedPatterns[i].strength

\* C3: a background decay sweep never raises a value it decays: after a
\* sweep of memory forgetting, of pattern decay or of loop monitoring, every
\* item that survives has an importance or strength less than or equal to
\* its value before the sweep.
C3_DecayNeverRaises ==
  [][/\ MemSweepStep => ForgettingNeverRaises
     /\ PatternSweepStep => PatternDecayNeverRaises
     /\ LoopSweepStep => LoopDecayNeverRaises]_vars

\* the pattern and loop parts of C3 on their own
PatternAndLoopDecayNeverRaise ==
  [][/\ PatternSweepStep => PatternDecayNeverRaises
     /\ LoopSweepStep => LoopDecayNeverRaises]_vars
\* a record is below the forgetting floor and was never retrieved, or was
\* last retrieved more than the staleness window ago
BelowFloorAndStale(m) ==
  /\ Has(m, "importance")
  /\ m.importance < forgetFloor
  /\ (m.lastRetrieved = 0 \/ now - m.lastRetrieved > stalenessWindow)

RetrievedWithinWindow(m) ==
  m.lastRetrieved # 0 /\ now - m.lastRetrieved <= stalenessWindow

\* C4: once a forgetting sweep has run, the store holds no record whose
\* importance is below the floor and that was not retrieved within the
\* staleness window; a record retrieved within the window survives the sweep.
C4_ForgottenAfterSweep ==
  [][MemSweepStep =>
       /\ \A m \in HeldRecords' : ~BelowFloorAndStale(m)
       /\ \A i \in 1..Len(episodicMemory) :
            RetrievedWithinWindow(episodicMemory[i])
              => \E j \in 1..Len(episodicMemory') :
                   episodicMemory'[j].id = episodicMemory[i].id]_vars


\* the calls i..j of the log all process the feature set of call i
SameFeatureRun(i, j) ==
  \A k \in i..j : SeqToSet(hasrLog[k].features) = SeqToSet(hasrLog[i].features)

\* C5: when the same feature set is processed several times in a row with no
\* decay in between and the first call creates a pattern (confidence 0.5,
\* strength 0.5 + noveltyBonus), every later call of the run creates no
\* pattern, is matched to the pattern the first call created, and leaves its
\* strength and confidence at least as high as the call before.
C5_RepeatReinforcesOnePattern ==
  \A i \in 1..Len(hasrLog) :
    hasrLog[i].created # <<>> =>
      /\ hasrLog[i].confidence = 500
      /\ hasrLog[i].strength = 500 + noveltyBonus
      /\ \A j \in (i + 1)..Len(hasrLog) :
           SameFeatureRun(i, j) =>
             /\ hasrLog[j].created = <<>>
             /\ hasrLog[j].matched = hasrLog[i].created
             /\ hasrLog[j].strength >= hasrLog[j - 1].strength
             /\ hasrLog[j].confidence >= hasrLog[j - 1].confidence

\* the resonance of pattern i against an input equal to its own template
SelfResonance(i) == calculateResonance([features |-> patterns[i].template], patterns[i])

\* C6 (as the code has it): for every stored pattern with a non-empty
\* template, calculateResonance of an input whose feature set equals the
\* template is the pattern's confidence (1.0 when the confidence is 0).
C6_SelfResonanceIsConfidence ==
  \A i \in 1..Len(patterns) :
    Len(patterns[i].template) > 0 =>
      SelfResonance(i) = IF patterns[i].confidence # 0
                         THEN patterns[i].confidence ELSE 1000

\* a pattern learned by processPattern resonates with its own template at
\* its confidence of 0.5
C6_Witness ==
  \E i \in 1..Len(patterns) :
    /\ Len(patterns[i].instances) > 0
    /\ patterns[i].confidence = 500
    /\ SelfResonance(i) = 500

\* C6 as stated: for every stored pattern, calculateResonance of an input
\* whose feature set equals the pattern's template is exactly 1.0.
C6_SelfResonanceIsOne ==
  \A i \in 1..Len(patterns) : SelfResonance(i) = 1000


\* C7: no two loops of the store have the same resonance signature, and
\* every loop's successCount is the count it was first crystallized with
\* plus the successful reinforcements it has received since (a repeated
\* crystallization does not reset it).
C7_OneLoopPerSignature ==
  /\ \A i, j \in 1..Len(crystallizedPatterns) :
       i # j => crystallizedPatterns[i].resonanceSignature
                  # crystallizedPatterns[j].resonanceSignature
  /\ \A i \in 1..Len(crystallizedPatterns) :
       crystallizedPatterns[i].successCount = loopSuccesses[crystallizedPatterns[i].id]

\* C8: checkResonance(input) returns every loop whose trigger features are
\* exactly the features of the input as the first element of its result,
\* with a resonance strictly greater than 0.6.
C8_ExactTriggerIsTopMatch ==
  loopLast.op = "check" =>
    \A i \in 1..Len(crystallizedPatterns) :
      (/\ Has(crystallizedPatterns[i].pattern, "trigger")
       /\ SeqToSet(crystallizedPatterns[i].pattern.trigger)
            = SeqToSet(loopExtractFeatures(loopLast.input[1])))
      => /\ Len(loopLast.result) > 0
         /\ loopLast.result[1].id = crystallizedPatterns[i].id
         /\ loopLast.result[1].resonance > loopResonanceThreshold


ExploreStep == wonderLast'.calls # wonderLast.calls

\* an explore() has succeeded and its cooldown has not elapsed yet
InCooldown ==
  wonder.lastWonderTime # 0 /\ now - wonder.lastWonderTime <= wonderCooldown

\* C9: an explore() call within the cooldown window of the last successful
\* one returns null and changes neither the exploration queue, the
\* curiosity level, the discoveries nor the last-exploration time; an
\* explore() call after the cooldown has elapsed returns an exploration
\* record.
C9_CooldownHolds ==
  [][ExploreStep =>
       /\ InCooldown =>
            /\ wonderLast'.returned = <<>>
            /\ wonder'.explorationQueue = wonder.explorationQueue
            /\ wonder'.curiosityLevel = wonder.curiosityLevel
            /\ wonder'.discoveries = wonder.discoveries
            /\ wonder'.lastWonderTime = wonder.lastWonderTime
       /\ ~InCooldown =>
            /\ wonderLast'.returned # <<>>
            /\ wonder'.lastWonderTime = now]_vars

\* of three explore() calls the second fell into the cooldown of the first
\* and the third, after the cooldown, returned an exploration record
C9_Witness ==
  /\ wonderLast.calls = 3
  /\ wonderLast.returned # <<>>
  /\ wonder.stats.wonderMoments = 2
  /\ wonderLast.time > StartTime + wonderCooldown


\* C10: after initialization, the coherence score is within [0,1] after
\* every integrate() call, whatever integrate(), setName() and reflect()
\* calls came before.
C10_CoherenceInUnitRange ==
  identityLast = "integrate" =>
    (0 <= identity.stats.coherence /\ identity.stats.coherence <= 1000)

\* an integrate() that follows a setName() and a reflect() has recomputed the
\* coherence score
C10_Witness ==
  /\ identityLast = "integrate"
  /\ identity.name # ""
  /\ identity.stats.selfReflections > 0
  /\ Len(identity.selfNarrative) = narrativeMaxLength
  /\ identity.stats.coherence # initialCoherence


\* C11: after every reflect() call the coherence score is the weighted blend
\* that updateCoherence() computes from the self-model as it is at the end of
\* that reflection.
C11_ReflectRecomputesCoherence ==
  identityLast = "reflect" =>
    identity.stats.coherence = updateCoherence(identity).stats.coherence


\* C12: every event submitted through the pipeline (POST /process: symbol
\* encoding followed by storeMemory) leaves an episodic record, so that a
\* getRecentMemories(limit) call made right after it returns a record of
\* that event.
C12_SubmittedEventIsRecent ==
  system.last.op = "process" =>
    \E limit \in RecentLimits :
      LET recent == getRecentMemories(limit)
      IN \E i \in 1..Len(recent) : recent[i].id \in SeqToSet(system.last.ids)


\* C13: whenever the cognition tick hands a consolidated pattern with
\* strength > 0.7 to the crystallizer, crystallizePattern completes without
\* raising and a behaviour loop beyond the pre-seeded ones is in the loop
\* store afterwards.
C13_HandedPatternIsCrystallized ==
  (system.last.op = "consolidate" /\ system.last.handed) =>
    /\ ~system.last.raised
    /\ Len(crystallizedPatterns) > Len(coreBehaviors)


\* a retrieveMemory or getRecentMemories call on the assembled system
MemoryQueryStep == system'.calls.memories # system.calls.memories

\* the stored records with their retrieval bookkeeping taken off
WithoutBookkeeping(memory) ==
  [f \in DOMAIN memory \ {"retrievalCount", "lastRetrieved"} |-> memory[f]]

\* C14: a memory query changes nothing except the retrievalCount and
\* lastRetrieved fields of records and the retrieval counter: the stored
\* records, the patterns and hierarchy of the pattern engine, the behaviour
\* loops and the self-model are the same after the query as before it.
C14_QueryOnlyBookkeeping ==
  [][MemoryQueryStep =>
       /\ Len(episodicMemory') = Len(episodicMemory)
       /\ \A i \in 1..Len(episodicMemory) :
            WithoutBookkeeping(episodicMemory'[i]) = WithoutBookkeeping(episodicMemory[i])
       /\ Len(semanticMemory') = Len(semanticMemory)
       /\ \A i \in 1..Len(semanticMemory) :
            /\ semanticMemory'[i].key = semanticMemory[i].key
            /\ WithoutBookkeeping(semanticMemory'[i].value)
                 = WithoutBookkeeping(semanticMemory[i].value)
       /\ UNCHANGED <<proceduralMemory, memoryStore>>
       /\ UNCHANGED <<patterns, resonanceNetwork, hierarchies>>
       /\ UNCHANGED <<crystallizedPatterns, activeLoops, identity>>]_vars


RetrieveStep == mpuLast'.op = "retrieve" /\ mpuLast'.n # mpuLast.n

\* retrieveMemory(query) has increased the retrievalCount of `before` by
\* exactly one and set its lastRetrieved to the time of the call
Bumped(before, after) ==
  /\ Has(before, "retrievalCount") /\ Has(after, "retrievalCount")
  /\ after.retrievalCount = before.retrievalCount + 1
  /\ Has(after, "lastRetrieved") /\ after.lastRetrieved = now

\* C15: the list retrieveMemory returns is in non-increasing order of
\* importance x (1 + retrievalCount x 0.1); every returned record has its
\* retrievalCount increased by exactly one and its lastRetrieved set to the
\* time of the call, and the records not returned are unchanged.
C15_RankedAndCounted ==
  [][RetrieveStep =>
       \E query \in RetrievalQueries :
         LET done == retrieveResults(query)
             results == done.results
             Ranked(m) == Has(m, "importance") /\ Has(m, "retrievalCount")
             Score(m) == Mul(m.importance, 1000 + m.retrievalCount * 100)
         IN /\ episodicMemory' = done.episodic
            /\ semanticMemory' = done.semantic
            /\ \A k \in 1..Len(results) : Ranked(results[k])
            /\ \A k \in 1..(Len(results) - 1) : Score(results[k]) >= Score(results[k + 1])
            /\ \A i \in 1..Len(episodicMemory) :
                 IF i \in done.matched.episodic
                 THEN Bumped(episodicMemory[i], episodicMemory'[i])
                 ELSE episodicMemory'[i] = episodicMemory[i]
            /\ \A i \in 1..Len(semanticMemory) :
                 IF i \in done.matched.semantic
                 THEN Bumped(semanticMemory[i].value, semanticMemory'[i].value)
                 ELSE semanticMemory'[i] = semanticMemory[i]]_vars


\* a storeMemory call that wrote to the semantic partition
SemanticStoreStep ==
  /\ mpuLast'.op = "store" /\ mpuLast'.n # mpuLast.n
  /\ semanticMemory' # semanticMemory

\* C16: the semantic partition holds at most one record per concept key and
\* at most maxSemantic records; a store on a key that already exists leaves
\* the number of records unchanged, raises the stored strength, and leaves
\* connections that are the union, without duplicates, of the old and the
\* new ones.
C16_SemanticMergeIsUnion ==
  [][SemanticStoreStep =>
       /\ Len(semanticMemory') <= maxSemantic
       /\ \A i, j \in 1..Len(semanticMemory') :
            semanticMemory'[i].key = semanticMemory'[j].key => i = j
       /\ \A i \in 1..Len(semanticMemory), j \in 1..Len(semanticMemory') :
            (/\ semanticMemory'[j].key = semanticMemory[i].key
             /\ semanticMemory'[j] # semanticMemory[i]) =>
              LET before == ConnectionsOf(semanticMemory[i].value)
                  after == ConnectionsOf(semanticMemory'[j].value)
              IN /\ Len(semanticMemory') = Len(semanticMemory)
                 /\ StrengthOr1(semanticMemory'[j].value)
                      > StrengthOr1(semanticMemory[i].value)
                 /\ SeqToSet(before) \subseteq SeqToSet(after)
                 /\ \A k, l \in 1..Len(after) : after[k] = after[l] => k = l]_vars


\* an episodic store that went over the cap and evicted
EvictionStep ==
  /\ mpuLast'.op = "store" /\ mpuLast'.n # mpuLast.n
  /\ mpuLast'.evicted

\* C17: after any sequence of episodic stores, evictions included, the
\* episodic partition is in chronological order, oldest first, so that
\* getRecentMemories(n) lists the most recently stored records newest
\* first; and every record an eviction drops has an importance less than or
\* equal to that of every record kept.
C17_EpisodicChronological ==
  [][(mpuLast'.op = "store" /\ mpuLast'.n # mpuLast.n) =>
       /\ \A i, j \in 1..Len(episodicMemory') :
            i < j => episodicMemory'[i].timestamp <= episodicMemory'[j].timestamp
       /\ EvictionStep =>
            LET kept == {episodicMemory'[i].id : i \in 1..Len(episodicMemory')}
            IN \A i \in 1..Len(episodicMemory) :
                 episodicMemory[i].id \notin kept =>
                   \A j \in 1..Len(episodicMemory') :
                     episodicMemory[i].importance <= episodicMemory'[j].importance]_vars


\* a reinforceLoop call
ReinforceStep == loopStats'.reinforcements # loopStats.reinforcements

\* C18: for every existing loop, reinforceLoop(id, true) adds one to
\* successCount and leaves strength = min(1, old + bonus), never lower than
\* before; reinforceLoop(id, false) adds one to failureCount and never
\* leaves the loop stronger than it was, in every state the loop can reach
\* through crystallization, reinforcement and decay sweeps.
C18_ReinforcementDirection ==
  [][ReinforceStep =>
       \A i \in 1..Len(crystallizedPatterns) :
         LET before == crystallizedPatterns[i]
             after == crystallizedPatterns'[i]
         IN after # before =>
              \/ /\ after.successCount = before.successCount + 1
                 /\ after.failureCount = before.failureCount
                 /\ after.strength = Min(1000, before.strength + reinforcementBonus)
                 /\ after.strength >= before.strength
              \/ /\ after.failureCount = before.failureCount + 1
                 /\ after.successCount = before.successCount
                 /\ after.strength <= before.strength]_vars


\* the loop store holds a loop with this id
Stored(loopId) ==
  \E i \in 1..Len(crystallizedPatterns) : crystallizedPatterns[i].id = loopId

\* C19: the active set never has more than maxActiveLoops members, whatever
\* the order of triggers, expiry sweeps and merges, and after every
\* triggerLoop call on an existing loop it contains that loop.
C19_ActiveSetBounded ==
  [][/\ Len(activeLoops') <= maxActiveLoops
     /\ \A loopId \in EvictionIds :
          (Stored(loopId) /\ TriggerLoop(loopId)) =>
            \E i \in 1..Len(activeLoops') : activeLoops'[i] = loopId]_vars

\* a trigger has taken the place of the oldest member of a full active set,
\* and a merge has been made
C19_Witness ==
  /\ Len(activeLoops) = maxActiveLoops
  /\ loopStats.successfulTriggers = MaxTriggers
  /\ loopStats.merges > 0
  /\ Len(loopHistory) = MaxTriggers
  /\ loopHistory[1].loopId # loopHistory[Len(loopHistory)].loopId

\* the statistics getStats() reports
reportedStats(stats) ==
  <<stats.totalCrystallized, stats.activeLoopCount, stats.successfulTriggers,
    stats.averageStrength>>

\* a call of triggerLoop, reinforceLoop or mergePatterns with an id the loop
\* store does not hold
UnknownIdStep ==
  \/ \E loopId \in LoopIds : ~Stored(loopId) /\ TriggerLoop(loopId)
  \/ \E loopId \in LoopIds, success \in BOOLEAN :
       ~Stored(loopId) /\ ReinforceLoop(loopId, success)
  \/ \E pattern1Id \in LoopIds, pattern2Id \in LoopIds :
       /\ ~Stored(pattern1Id) \/ ~Stored(pattern2Id)
       /\ MergePatterns(pattern1Id, pattern2Id)

\* C20: triggerLoop, reinforceLoop and mergePatterns called with a loop id
\* that is not in the loop store return without a result and leave the loop
\* store, the active set, the trigger history and the statistics unchanged.
C20_UnknownIdChangesNothing ==
  [][UnknownIdStep =>
       /\ UNCHANGED <<crystallizedPatterns, activeLoops, loopHistory>>
       /\ reportedStats(loopStats') = reportedStats(loopStats)
       /\ loopLast' = noLoopResult]_vars

\* all three operations have been called, `feed` was never crystallized, and
\* the store, the active set, the history and the statistics are those of the
\* start: every call named a loop the store does not hold
C20_Witness ==
  /\ loopStats.triggers > 0
  /\ loopStats.reinforcements > 0
  /\ loopStats.merges > 0
  /\ ~Stored(<<"feed">>)
  /\ crystallizedPatterns =
       [i \in 1..Len(coreBehaviors) |-> ghostLoop(corePatternData(coreBehaviors[i]))]
  /\ activeLoops = <<>>
  /\ loopHistory = <<>>
  /\ reportedStats(loopStats) = <<Len(coreBehaviors), 0, 0, 800>>

\* the stored loop with this id
StoredLoop(loops, loopId) == loops[LoopIndex(loops, loopId)]

\* the features a loop holds under `field` of its pattern, as a set
FeatureSet(loop, field) ==
  IF Has(loop.pattern, field)
  THEN {loop.pattern[field][i] : i \in 1..Len(loop.pattern[field])}
  ELSE {}

\* C21: mergePatterns(a, b) on two distinct existing loops yields one loop
\* whose trigger and response features are the unions of the originals',
\* whose strength is their average and whose successCount and failureCount
\* are the sums of the originals' counts; afterwards neither original is in
\* the loop store.
C21_MergeSumsCounts ==
  [][\A a \in LoopIds, b \in LoopIds :
       (a # b /\ Stored(a) /\ Stored(b) /\ MergePatterns(a, b)) =>
         LET loop1 == StoredLoop(crystallizedPatterns, a)
             loop2 == StoredLoop(crystallizedPatterns, b)
             merged == StoredLoop(crystallizedPatterns', <<"merged_", a, b>>)
         IN /\ Len(crystallizedPatterns') = Len(crystallizedPatterns) - 1
            /\ \A i \in 1..Len(crystallizedPatterns') :
                 crystallizedPatterns'[i].id \notin {a, b}
            /\ FeatureSet(merged, "trigger") =
                 FeatureSet(loop1, "trigger") \cup FeatureSet(loop2, "trigger")
            /\ FeatureSet(merged, "response") =
                 FeatureSet(loop1, "response") \cup FeatureSet(loop2, "response")
            /\ 2 * merged.strength \in
                 {loop1.strength + loop2.strength - 1, loop1.strength + loop2.strength}
            /\ merged.successCount = loop1.successCount + loop2.successCount
            /\ merged.failureCount = loop1.failureCount + loop2.failureCount]_vars

\* C22: the curiosity cycle reaches its stagnation branch, so that an engine
\* left without input eventually starts an exploration on its own.
C22_IdleEngineExplores ==
  wonder.isActive ~> (wonder.stats.wonderMoments > 0)

\* an explore() call that returned an exploration record
ExploredStep == ExploreStep /\ wonderLast'.returned # <<>>

\* the queue is within its capacity, a successful explore() appends its
\* record behind the entries already held, dropping the oldest of a full
\* queue, no other step touches the queue, and the curiosity level is
\* within [0,1]
QueueIsBoundedFifo ==
  /\ Len(wonder'.explorationQueue) <= maxQueueSize
  /\ wonder'.curiosityLevel >= 0 /\ wonder'.curiosityLevel <= 1000
  /\ ExploredStep =>
       wonder'.explorationQueue =
         (IF Len(wonder.explorationQueue) = maxQueueSize
          THEN Tail(wonder.explorationQueue) ELSE wonder.explorationQueue)
         \o wonderLast'.returned
  /\ ~ExploredStep => wonder'.explorationQueue = wonder.explorationQueue

\* the curiosity level boostCuriosity(curiosityBoost) leaves
Boosted == Min(1000, wonder.curiosityLevel + curiosityBoost)

\* every symbol of the exploration returned is a first discovery
AllNew ==
  \A i \in 1..Len(wonderLast'.returned[1].symbols) :
    DiscoveryIndex(wonder.discoveries, wonderLast'.returned[1].symbols[i].concept) = 0

ScheduledNow ==
  {k \in 1..Len(wonder'.pending) :
     \A j \in 1..Len(wonder.pending) : wonder.pending[j] # wonder'.pending[k]}

\* C24: recursive exploration terminates: a deeper step is scheduled only
\* when the depth of the exploration being processed is below
\* explorationDepth and the curiosity level is above the floor, every
\* scheduled step is one level deeper than the step that scheduled it, and
\* an exploration has at most one step pending, so that one successful
\* explore() leads to at most explorationDepth deferred re-entries of
\* processExploration.
C24_ExplorationTerminates ==
  [][/\ \A k \in ScheduledNow :
          LET deeper == wonder'.pending[k].exploration
          IN /\ deeper.depth >= 1 /\ deeper.depth <= explorationDepth
             /\ Len(deeper.path) = deeper.depth
             /\ wonder'.curiosityLevel > deeperFloor
             /\ \/ deeper.depth = 1 /\ ExploredStep
                   /\ deeper.path[1] = wonderLast'.returned[1].id
                \/ /\ Len(wonder.pending) > 0
                   /\ wonder.pending[1].exploration.depth = deeper.depth - 1
                   /\ wonder.pending[1].exploration.path[1] = deeper.path[1]
                   /\ wonder'.pending = Append(Tail(wonder.pending), wonder'.pending[k])
     /\ \A j \in 1..Len(wonder'.pending), k \in 1..Len(wonder'.pending) :
          wonder'.pending[j].exploration.path[1] = wonder'.pending[k].exploration.path[1]
            => j = k]_vars

\* an exploration and its explorationDepth deferred re-entries have run: no
\* step is pending and a discovery of the one exploration made has been
\* encountered 1 + explorationDepth times
C24_Witness ==
  /\ wonder.stats.wonderMoments = 1
  /\ wonder.pending = <<>>
  /\ wonder.curiosityLevel > deeperFloor
  /\ \E i \in 1..Len(wonder.discoveries) :
       wonder.discoveries[i].encounters = 1 + explorationDepth

\* C25: every pattern's strength and confidence are within [0,1] after any
\* sequence of processPattern calls, matched or novel, and pattern decay
\* sweeps.
C25_PatternsInUnitRange ==
  \A i \in 1..Len(patterns) :
    /\ patterns[i].strength >= 0 /\ patterns[i].strength <= 1000
    /\ patterns[i].confidence >= 0 /\ patterns[i].confidence <= 1000

\* after a decay sweep a base pattern has been matched and strengthened,
\* and a learned pattern is connected to it in the resonance network
C25_Witness ==
  /\ hasrStats.sweeps > 0
  /\ \E i \in 1..Len(patterns) :
       /\ Len(patterns[i].instances) = 1
       /\ patterns[i].name = <<"interaction_positive">>
       /\ patterns[i].strength > Mul(1000, patternDecay)
       /\ \E e \in 1..Len(resonanceNetwork) :
            \E c \in 1..Len(resonanceNetwork[e].value) :
              resonanceNetwork[e].value[c].target = patterns[i].name

\* the largest capacity the memory configuration names
largestCapacity == Max(maxEpisodic, maxSemantic)

\* the number of records held under the keys of the procedural partition
ProceduralRecords ==
  LET G[n \in 0..Len(proceduralMemory)] ==
        IF n = 0 THEN 0 ELSE G[n - 1] + Len(proceduralMemory[n].value)
  IN G[Len(proceduralMemory)]

\* C26: under any sequence of stored events every memory partition,
\* the general store included, stays within a fixed capacity: sustained
\* load causes eviction, not growth.
C26_ContainersBounded ==
  /\ Len(episodicMemory) <= maxEpisodic
  /\ Len(semanticMemory) <= maxSemantic
  /\ Len(memoryStore) <= largestCapacity
  /\ ProceduralRecords <= largestCapacity

\* C27: bindings are unordered: there is at most one binding per unordered
\* pair of concepts, whichever of the two was encoded first, and every
\* binding strength is within [0,1].
C27_OneBindingPerPair ==
  /\ \A i \in 1..Len(ssp.bindingStrength), j \in 1..Len(ssp.bindingStrength) :
       {ssp.bindingStrength[i].key[1], ssp.bindingStrength[i].key[2]}
         = {ssp.bindingStrength[j].key[1], ssp.bindingStrength[j].key[2]}
       => i = j
  /\ \A i \in 1..Len(ssp.bindingStrength) :
       ssp.bindingStrength[i].value >= 0 /\ ssp.bindingStrength[i].value <= 1000

\* a reflect() call
ReflectStep == identity'.stats.selfReflections # identity.stats.selfReflections

\* `after` is between `before` and the baseline 0.5, both included
TowardsBaseline(before, after) ==
  /\ before >= 500 => (after >= 500 /\ after <= before)
  /\ before <= 500 => (after <= 500 /\ after >= before)

\* C28: the stability of every personality dimension never decreases across
\* integrate() and reflect() calls and stays within [0,1]; a reflection
\* moves a trait value that was not reinforced during the last minute
\* towards 0.5, never away from it or past it, and leaves the others as they
\* are; trait values stay within [0,1].
C28_StabilityGrowsValueDrifts ==
  [][/\ \A d \in DOMAIN identity'.personality :
          /\ identity'.personality[d].stability >= 0
          /\ identity'.personality[d].stability <= 1000
          /\ identity'.personality[d].value >= 0
          /\ identity'.personality[d].value <= 1000
     /\ \A d \in DOMAIN identity.personality :
          /\ d \in DOMAIN identity'.personality
          /\ identity'.personality[d].stability >= identity.personality[d].stability
          /\ ReflectStep =>
               IF now - identity.personality[d].lastUpdated > driftWindow
               THEN TowardsBaseline(identity.personality[d].value,
                                    identity'.personality[d].value)
               ELSE identity'.personality[d].value = identity.personality[d].value]_vars

\* a reflection has moved a trait that an experience had raised back
\* towards 0.5, and has raised its stability once more
C28_Witness ==
  /\ identityLast = "reflect"
  /\ \E d \in DOMAIN identity.personality :
       /\ identity.personality[d].value > 500
       /\ identity.personality[d].value % 10 # 0
       /\ now - identity.personality[d].lastUpdated > driftWindow
       /\ identity.personality[d].stability > initialStability + reflectionStabilityGain


\* the number of places of the sequence s that hold x
Occurrences(s, x) == Cardinality({i \in 1..Len(s) : s[i] = x})

\* the sequences a and b hold the same entries the same number of times
SameEntries(a, b) ==
  /\ Len(a) = Len(b)
  /\ \A i \in 1..Len(a) : Occurrences(a, a[i]) = Occurrences(b, a[i])

\* the sequence s without its place r
RemoveAt(s, r) == [i \in 1..(Len(s) - 1) |-> IF i < r THEN s[i] ELSE s[i + 1]]

\* the log after the append of `entry` is within the cap, and when the append
\* went over the cap the log lost one entry of lowest importance that is the
\* oldest of the entries of that importance
NarrativePruned(entry) ==
  LET full == Append(identity.selfNarrative, entry)
      kept == identity'.selfNarrative
  IN /\ Len(kept) <= narrativeMaxLength
     /\ IF Len(full) > narrativeMaxLength
        THEN \E r \in 1..Len(full) :
               /\ \A i \in 1..Len(full) :
                    /\ NarrativeImportance(full[r]) <= NarrativeImportance(full[i])
                    /\ NarrativeImportance(full[i]) = NarrativeImportance(full[r])
                         => full[r].timestamp <= full[i].timestamp
               /\ SameEntries(kept, RemoveAt(full, r))
        ELSE kept = full

\* C29: the narrative log never holds more than narrativeMaxLength entries,
\* and an append that takes it over the cap removes an entry of lowest
\* importance and, among the entries of equal lowest importance, the oldest
\* one, so that a significant experience that was just appended is not the one
\* discarded while an older entry of the same importance remains.
C29_PruneDropsOldestLeastImportant ==
  [][/\ \A experience \in Experiences :
          (isSignificant(experience) /\ Integrate(experience))
            => NarrativePruned(Spread(experience,
                                      [timestamp |-> now, integrated |-> FALSE]))
     /\ \A name \in Names :
          SetName(name)
            => NarrativePruned([type |-> "naming", content |-> <<"I am ", name>>,
                                importance |-> 1000, timestamp |-> now,
                                integrated |-> FALSE])]_vars


\* the fields of the engine that the source holds
engineState(w) == [f \in DOMAIN w \ {"cycles"} |-> w[f]]

\* C30: after shutdown() of a component has completed, its periodic
\* background sweeps are torn down: no later timer tick changes any state of
\* the component. For the wonder engine: once shutdown() has cleared isActive,
\* neither the 2 s curiosity interval nor a deferred exploration changes a
\* field of the engine.
C30_NoTickAfterShutdown ==
  [][(wonder.cycleTimer /\ ~wonder.isActive)
       => /\ \A spike \in BOOLEAN, prompt \in 1..Len(wonderPrompts) :
               CuriosityCycle(spike, prompt)
                 => engineState(wonder') = engineState(wonder)
          /\ DeeperTimer => engineState(wonder') = engineState(wonder)]_vars


\* C31: if shutdown() succeeds in writing and initialize() then loads from
\* the same data directory, the episodic and semantic partitions after
\* loading equal the partitions as they were just before shutdown (same
\* records, same keys, same order), for any partition content within the
\* caps.
C31_CheckpointRoundTrip ==
  [][MpuShutdown(2)
       => /\ loadPersistedMemories(files').episodic = episodicMemory
          /\ loadPersistedMemories(files').semantic = semanticMemory]_vars


\* a file operation of persistMemory fails in this step
PersistFailure ==
  \E i \in 1..Len(inflight) : PersistRead(i, FALSE) \/ PersistWrite(i, FALSE)

\* C32: if the durable write (or the preceding read) of persistMemory fails,
\* storeMemory still returns the stored record without raising, and the
\* record is present in its in-memory partition exactly as if persistence had
\* succeeded: a failing file operation changes nothing of the memory store,
\* and no call ends rejected.
C32_PersistFailureIsSilent ==
  [][/\ PersistFailure => UNCHANGED mpuVars
     /\ \A i \in 1..Len(inflight') :
          inflight'[i].at = "returned" => ~inflight'[i].raised]_vars

\* a storeMemory call has returned after the write of its record failed, and
\* the record is in the episodic partition
C32_Witness ==
  \E i \in 1..Len(inflight) :
    /\ inflight[i].at = "returned"
    /\ inflight[i].memory.importance > persistThreshold
    /\ ~inflight[i].written
    /\ \E j \in 1..Len(episodicMemory) : episodicMemory[j] = inflight[i].memory


\* the calls of `inflight` whose record persistMemory was called with
Persisted == {i \in 1..Len(inflight) : inflight[i].memory.importance > persistThreshold}

\* C35: the per-owner persisted document never holds more than 100 records
\* and loses no update: when storeMemory calls for the same owner, both with
\* importance > 0.5, overlap in time, the document contains both records once
\* both calls have completed with their file operations succeeding (as long
\* as it holds fewer records than the cap).
C35_NoLostUpdate ==
  /\ \A f \in DOMAIN files : Len(files[f]) <= persistLimit
  /\ ( /\ \A i \in 1..Len(inflight) : inflight[i].at = "returned"
       /\ \A i \in Persisted : inflight[i].readOk /\ inflight[i].written
       /\ Cardinality(Persisted) < persistLimit + 1 )
     => \A i \in Persisted :
          /\ petFile(inflight[i].memory) \in DOMAIN files
          /\ \E k \in 1..Len(files[petFile(inflight[i].memory)]) :
               files[petFile(inflight[i].memory)][k].id = inflight[i].memory.id


\* the requests whose handler has started and has not answered yet
Unanswered ==
  {i \in 1..Len(inflight) : inflight[i].call = "process" /\ inflight[i].at # "answered"}

\* C33: event submissions are serialized: the steps of one submission (symbol
\* encoding, memory store, pattern learning, identity integration) are applied
\* without a step of another concurrent submission in between, so patterns
\* are learned in the order in which events were encoded, also when a store
\* waits for its persistence write.
C33_SubmissionsSerialized ==
  /\ Cardinality(Unanswered) <= 1
  /\ \A i \in 1..Len(inflight) : \A j \in 1..Len(inflight) :
       (i < j /\ inflight[j].at = "answered") => inflight[i].at = "answered"


\* the groups of the scanned batch whose share of it is above
\* consolidationThreshold: count / batch length > 0.7
StrongGroups ==
  LET batch == LastN(episodicMemory, consolidationBatch)
      groups == findPatterns(batch)
  IN {p \in 1..Len(groups) :
        groups[p].count * 1000 > consolidationThreshold * Len(batch)}

\* the semantic Map after the sweep holds the record of group p, merged into
\* the record of that key when there was one; or the Map was full and the
\* new record, the weakest, was removed by the size limit of the same write
GroupWritten(p) ==
  LET group == findPatterns(LastN(episodicMemory, consolidationBatch))[p]
      Held(sem) == {k \in 1..Len(sem) : sem[k].key = group.concept}
  IN \/ \E k \in Held(semanticMemory') :
          /\ semanticMemory'[k].value.source = "consolidation"
          /\ semanticMemory'[k].value.strength =
               IF Held(semanticMemory) = {} THEN group.strength
               ELSE StrengthOr1(semanticMemory[CHOOSE j \in Held(semanticMemory) : TRUE].value)
                    + 100
     \/ /\ Held(semanticMemory) = {}
        /\ Held(semanticMemory') = {}
        /\ Len(semanticMemory) = maxSemantic

\* C34: a consolidation sweep over the most recent 50 episodic records writes
\* (or merges into) a semantic record for a pattern-key group if and only if
\* the group's share of the scanned batch is strictly greater than
\* consolidationThreshold (0.7); consequently one sweep writes at most one
\* semantic record, and a sweep over an empty episodic partition writes none.
C34_ConsolidatesStrongGroups ==
  [][MemSweepStep
       => /\ mpuStats'.consolidations - mpuStats.consolidations
               = Cardinality(StrongGroups)
          /\ Cardinality(StrongGroups) <= 1
          /\ \A p \in StrongGroups : GroupWritten(p)
          /\ StrongGroups = {} => semanticMemory' = semanticMemory
          /\ Len(episodicMemory) = 0 => semanticMemory' = semanticMemory]_vars

\* a sweep over two records of one key has written their semantic record, and
\* an earlier sweep had scanned records of which no key had the share
C34_Witness ==
  /\ mpuLast.op = "sweep"
  /\ mpuStats.sweeps = 2
  /\ mpuStats.consolidations = 1
  /\ \E k \in 1..Len(semanticMemory) :
       /\ semanticMemory[k].value.source = "consolidation"
       /\ semanticMemory[k].value.strength = 1000


\* the ids that leave the active set in this step
Deactivated ==
  {activeLoops[i] : i \in 1..Len(activeLoops)}
    \ {activeLoops'[i] : i \in 1..Len(activeLoops')}

\* the time of the last trigger of the stored loop `id`
LastTriggered(id) == StoredLoop(crystallizedPatterns, id).lastTriggered

\* C36: triggerLoop removes another loop from the active set only when the
\* set would otherwise exceed maxActiveLoops, and the loop it removes is the
\* active loop whose last trigger is the least recent; re-triggering a loop
\* that is already active never removes a different loop.
C36_EvictsLeastRecentWhenFull ==
  [][\A loopId \in EvictionIds :
       (Stored(loopId) /\ TriggerLoop(loopId))
         => /\ Deactivated # {}
                 => (Len(activeLoops) >= maxActiveLoops /\ ~IsActive(loopId))
            /\ \A id \in Deactivated : \A i \in 1..Len(activeLoops) :
                 (Stored(id) /\ Stored(activeLoops[i]))
                   => LastTriggered(id) <= LastTriggered(activeLoops[i])
            /\ IsActive(loopId) => Deactivated = {}]_vars

\* C37: in every reachable state getCrystallizedCount(), that is
\* stats.totalCrystallized, equals the number of loops in the loop store,
\* across crystallizePattern (of a new or of an existing id), mergePatterns
\* and the removals of the decay sweep.
C37_CountMatchesStore ==
  loopStats.totalCrystallized = Len(crystallizedPatterns)

\* C38: every id in the active set refers to a loop that exists in the loop
\* store, across trigger, decay removal and mergePatterns (an id whose loop
\* is gone is skipped by the expiry of the monitoring sweep, which reads the
\* loop's lastTriggered, so it does not leave the set by expiry either).
C38_ActiveLoopsAreStored ==
  \A i \in 1..Len(activeLoops) : Stored(activeLoops[i])

\* isNovel(symbols): the product of (1 - familiarity) over the symbols that
\* have been discovered, compared with config.noveltyThreshold
isNovel(w, symbols) ==
  LET score[k \in 0..Len(symbols)] ==
        IF k = 0 THEN 1000
        ELSE LET idx == DiscoveryIndex(w.discoveries, symbols[k].concept)
             IN IF idx # 0
                THEN Mul(score[k - 1], 1000 - w.discoveries[idx].familiarity)
                ELSE score[k - 1]
  IN IF Len(symbols) = 0 THEN FALSE ELSE score[Len(symbols)] > noveltyThreshold

\* the symbol lists isNovel is asked about: those explored, the empty list
\* and a list of a concept that is never explored
NoveltyInputs == ExploreInputs \cup {<<>>, <<[concept |-> "ball"]>>}

Undiscovered(w, symbols) ==
  \A k \in 1..Len(symbols) : DiscoveryIndex(w.discoveries, symbols[k].concept) = 0

\* C39: a discovery's familiarity never decreases and discoveries are never
\* removed, so for a fixed symbol list isNovel, once false, is false on every
\* later call; isNovel of an empty list is false and isNovel of symbols none
\* of which has been discovered is true.
C39_NoveltyMonotone ==
  [][/\ \A i \in 1..Len(wonder.discoveries) :
          /\ i <= Len(wonder'.discoveries)
          /\ wonder'.discoveries[i].concept = wonder.discoveries[i].concept
          /\ wonder'.discoveries[i].familiarity >= wonder.discoveries[i].familiarity
     /\ \A symbols \in NoveltyInputs :
          /\ ~isNovel(wonder, symbols) => ~isNovel(wonder', symbols)
          /\ symbols = <<>> => ~isNovel(wonder', symbols)
          /\ (symbols # <<>> /\ Undiscovered(wonder', symbols))
               => isNovel(wonder', symbols)]_vars

\* a list that was novel is no longer novel after its symbols have been met
\* again, while a list of an undiscovered concept is still novel
C39_Witness ==
  /\ \E symbols \in ExploreInputs : ~isNovel(wonder, symbols)
  /\ \E symbols \in ExploreInputs : isNovel(wonder, symbols)
  /\ \E i \in 1..Len(wonder.discoveries) :
       wonder.discoveries[i].familiarity > firstFamiliarity

\* the positions of the episodic records that match the query
EpisodicHits(query) ==
  {i \in 1..Len(episodicMemory) : semanticMatch(episodicMemory[i], query)}

\* C40: retrieveMemory returns the best-ranked matches: no episodic record
\* that matches the query and is left out of the result has a higher ranking
\* score than an episodic record that is returned, also when more episodic
\* records match than searchEpisodicMemory returns.
C40_BestRankedReturned ==
  [][\A query \in Queries :
       RetrieveMemory(query)
         => LET returned == retrieveResults(query).matched.episodic
            IN \A i \in EpisodicHits(query) \ returned : \A j \in returned :
                 retrievalScore(episodicMemory'[i]) <= retrievalScore(episodicMemory'[j])]_vars

====
